---- MODULE Spec2Model ----
(***************************************************************************)
(* Verification model of the Fornjot B-rep kernel: the identity-keyed      *)
(* handles, the object stores, the partial-object builders, half-edge      *)
(* reversal and the validation checks.                                     *)
(*                                                                         *)
(* Scalars are modelled as integers: a curve or model coordinate is a      *)
(* whole number of grid units, and a distance between two points on a      *)
(* curve is the absolute difference of their coordinates.  A grid unit is  *)
(* 1e-7 model units.                                                       *)
(***************************************************************************)
EXTENDS Integers, Sequences, FiniteSets, TLC

(***************************************************************************)
(* Bounds of the model.                                                    *)
(***************************************************************************)
\* number of handles the Shape world hands out (Storage::new and clones)
MaxHandles == 4
\* number of distinct face values stored in a Shape
MaxFaceValue == 2

FaceValues == 1..MaxFaceValue
\* largest coordinate of a point, in grid units
MaxCoord == 5
\* number of reserve and insert calls of a run of the bare stores
MaxStoreOps == 3
\* number of half-edges a run makes or reverses
MaxEdgeOps == 1
\* largest distinct_min_distance of a validation configuration, in grid units
MaxMinDistance == 5
\* ValidationConfig::default().distinct_min_distance: 5e-7, which is five
\* grid units of 1e-7
DefaultDistinctMinDistance == 5
\* number of partial objects a run builds
MaxBuilds == 1
\* number of operations of a run that uses every operation
MaxKernelOps == 1
\* number of vertices of a shape, and the largest coordinate of one
MaxShape == 3
MaxShapeCoord == 2
\* number of sweeps of a run
MaxSweeps == 2
\* number of half-edges made and reversed in a run
MaxReverses == 2
\* the farthest point of an approximated edge, and the number of points a
\* curve is sampled at
MaxApproxCoord == 3
MaxSamples == 3
\* number of shells and solids made in a run, and the largest tolerance
MaxShells == 3
MaxTolerance == 1
\* the longest edge of a cube
MaxEdgeLength == 1
\* the largest tolerance and the largest radius of an approximated circle
MaxCircleTolerance == 50
MaxRadius == 100
\* the number of edges of an approximated cycle or face
MaxFaceEdges == 3
\* number of calls of Mesh::triangle in a run
MaxTriangles == 2
\* number of planes and faces made and of intersections computed in a run
MaxIntersects == 3
\* the farthest a plane is moved from the origin, and the far corner of
\* the largest square face
MaxOffset == 1
MaxSquare == 2

VARIABLES
    \* src/kernel/shape: the Rc allocations made by Storage::new, in order;
    \* rcs[p] is the value the allocation p holds
    rcs,
    \* the Vec<Face> of kernel::shape::Faces
    faces,
    \* the Handle<Face> values the program holds; ptr is the Rc they wrap and
    \* from is the index of the handle they were cloned from (0: Storage::new)
    handles,
    \* fj-kernel Objects: every slot the object stores have handed out, in the
    \* order of reservation; the identity of a handle is the index of its slot
    objects,
    \* the outcome of the last operation on the stores (what it returned)
    result,
    \* the number of store operations the run may still perform
    fuel,
    \* the SweepCache of the sweep that is under way
    cache,
    \* fj mesh: the Mesh that triangles are added to
    mesh

shapeVars == <<rcs, faces, handles>>
storeVars == <<objects, result, fuel>>
sweepVars == <<cache>>
meshVars == <<mesh>>

(***************************************************************************)
(* kernel/shape/handle.rs                                                  *)
(***************************************************************************)

\* Storage::new: a fresh Rc allocation holding the value
Storage_new(value) == Len(rcs) + 1

\* Storage::handle / Clone for Storage: the same Rc, no new allocation
Storage_clone(storage) == [ptr |-> storage.ptr]

\* Deref for Handle / Handle::get
Handle_get(handle) == rcs[handle.ptr]

\* a derived PartialEq would compare the referenced values
Storage_eq_by_value(a, b) == rcs[a.ptr] = rcs[b.ptr]

\* impl PartialEq for Storage: Rc::ptr_eq
Storage_eq(a, b) == a.ptr = b.ptr

\* impl Hash for Storage: the pointer is hashed
Storage_hash(a) == a.ptr

\* Ord on two values of the stored type
ValueCmp(x, y) == IF x < y THEN "Less" ELSE IF x > y THEN "Greater" ELSE "Equal"

\* #[derive(Ord, PartialOrd)] on Storage<T>(Rc<T>): the derive delegates to
\* Rc<T>'s Ord, which compares the referenced values
Storage_cmp(a, b) == ValueCmp(rcs[a.ptr], rcs[b.ptr])

\* #[derive(Eq, PartialEq, Hash, Ord, PartialOrd)] on Handle<T>(Storage<T>)
Handle_eq(a, b) == Storage_eq(a, b)
Handle_hash(a) == Storage_hash(a)
Handle_cmp(a, b) == Storage_cmp(a, b)

(***************************************************************************)
(* kernel/shape/faces.rs                                                   *)
(***************************************************************************)

\* Faces::add: push a clone of the face, return a handle to new storage
Faces_add(face) ==
    /\ Len(handles) < MaxHandles
    /\ rcs' = Append(rcs, face)
    /\ faces' = Append(faces, face)
    /\ handles' = Append(handles, [ptr |-> Storage_new(face), from |-> 0])

\* #[derive(Clone)] on Handle: clone of a handle the program holds
Handle_clone(i) ==
    /\ Len(handles) < MaxHandles
    /\ handles' = Append(handles, Storage_clone(handles[i]) @@ [from |-> i])
    /\ UNCHANGED <<rcs, faces>>

ShapeInit ==
    /\ rcs = << >>
    /\ faces = << >>
    /\ handles = << >>

ShapeNext ==
    \/ \E face \in FaceValues : Faces_add(face)
    \/ \E i \in DOMAIN handles : Handle_clone(i)

\* the handle created by Storage::new that handle i descends from
RECURSIVE Origin(_)
Origin(i) == IF handles[i].from = 0 THEN i ELSE Origin(handles[i].from)

(***************************************************************************)
(* fj-kernel objects/stores.rs: the object stores.  A slot is reserved     *)
(* empty and filled later; a handle is the identity of its slot.           *)
(***************************************************************************)

\* the stores of Objects, one per kind of object
Kinds ==
    {"Curve", "Cycle", "Face", "GlobalCurve", "GlobalEdge", "GlobalVertex",
     "HalfEdge", "Shell", "Sketch", "Solid", "SurfaceVertex", "Surface",
     "Vertex"}

\* Store::reserve: a new, empty, uniquely identified slot
Store_reserve(objs, kind) == Append(objs, [kind |-> kind, full |-> FALSE])

\* Store::insert: fill the slot the handle identifies
Store_insert(objs, handle, value) ==
    [objs EXCEPT ![handle] = [kind |-> objs[handle].kind, full |-> TRUE,
                              val |-> value]]

\* Curves::reserve, Surfaces::reserve, ...: every store delegates to its Store
Stores_reserve(objs, kind) == Store_reserve(objs, kind)

\* a wrapper that ignores the handle it is given and fills a slot of its own
Stores_insert_fresh(objs, handle, value) ==
    Store_insert(Store_reserve(objs, objs[handle].kind), Len(objs) + 1, value)

\* Curves::insert, Surfaces::insert, ...: every store delegates to its Store
Stores_insert(objs, handle, value) == Store_insert(objs, handle, value)

\* Insert::insert: reserve a slot and fill it in one step
Insert_insert(objs, kind, value) ==
    Stores_insert(Stores_reserve(objs, kind), Len(objs) + 1, value)

\* Handle::id
Handle_id(handle) == handle

\* Deref for a handle of the stores
Deref(objs, handle) == objs[handle].val

\* the handles a store has handed out, and those whose slot is filled
HandlesOf(objs, kind) == {h \in DOMAIN objs : objs[h].kind = kind}
FullOf(objs, kind) == {h \in HandlesOf(objs, kind) : objs[h].full}

\* Scalar::ONE in grid units of 1e-7, and Vector::unit_y, Vector::unit_z
Scalar_ONE == 10000000
Vector_unit_y == <<0, Scalar_ONE, 0>>
Vector_unit_z == <<0, 0, Scalar_ONE>>

\* GlobalPath::x_axis, GlobalPath::y_axis: the line through the origin
\* whose direction is the unit vector
GlobalPath_x_axis ==
    [origin |-> <<0, 0, 0>>, direction |-> <<Scalar_ONE, 0, 0>>]
GlobalPath_y_axis ==
    [origin |-> <<0, 0, 0>>, direction |-> <<0, Scalar_ONE, 0>>]

\* SurfaceGeometry: u is a GlobalPath, v a vector
SurfaceGeometry(u, v) == [u |-> u, v |-> v]

\* Surface::new
Surface_new(geometry) == [geometry |-> geometry]

\* planes whose yz-plane runs along the x-axis like the other two
SurfacesDefault_yz_along_x ==
    LET xy == Insert_insert(<< >>, "Surface",
                  Surface_new(SurfaceGeometry(GlobalPath_x_axis, Vector_unit_y)))
        xz == Insert_insert(xy, "Surface",
                  Surface_new(SurfaceGeometry(GlobalPath_x_axis, Vector_unit_z)))
        yz == Insert_insert(xz, "Surface",
                  Surface_new(SurfaceGeometry(GlobalPath_x_axis, Vector_unit_z)))
    IN  yz

\* impl Default for Surfaces: the three planes are reserved and inserted
SurfacesDefault ==
    LET xy == Insert_insert(<< >>, "Surface",
                  Surface_new(SurfaceGeometry(GlobalPath_x_axis, Vector_unit_y)))
        xz == Insert_insert(xy, "Surface",
                  Surface_new(SurfaceGeometry(GlobalPath_x_axis, Vector_unit_z)))
        yz == Insert_insert(xz, "Surface",
                  Surface_new(SurfaceGeometry(GlobalPath_y_axis, Vector_unit_z)))
    IN  yz

\* Surfaces::xy_plane, xz_plane, yz_plane
xy_plane == 1
xz_plane == 2
yz_plane == 3

\* Objects::new
Objects_new == SurfacesDefault

(***************************************************************************)
(* The objects.  A reference to another object is the handle of its slot.  *)
(***************************************************************************)

\* coordinates on a curve, and points of a surface and of model space
CurveCoords == 0..MaxCoord
Points2 == {<<u, 0>> : u \in CurveCoords}
Points3 == {<<x, 0, 0>> : x \in CurveCoords}

\* SurfacePath: the lines a curve can be updated to (CurveBuilder)
SurfacePaths == {"u_axis", "v_axis"}

\* GlobalCurve: a unit struct, it has no content
GlobalCurve == [unit |-> TRUE]

\* GlobalVertex::new / GlobalVertex::from_position
GlobalVertex_new(position) == [position |-> position]

\* Curve::new
Curve_new(surface, path, global_form) ==
    [surface |-> surface, path |-> path, global_form |-> global_form]

\* SurfaceVertex::new
SurfaceVertex_new(position, surface, global_form) ==
    [position |-> position, surface |-> surface, global_form |-> global_form]

\* Vertex::new
Vertex_new(position, curve, surface_form) ==
    [position |-> position, curve |-> curve, surface_form |-> surface_form]

\* VerticesInNormalizedOrder::new: the pair sorted by identity, and whether
\* the two were swapped
VerticesInNormalizedOrder_new(vertices) ==
    IF Handle_id(vertices[1]) <= Handle_id(vertices[2])
    THEN [vertices |-> vertices, swapped |-> FALSE]
    ELSE [vertices |-> <<vertices[2], vertices[1]>>, swapped |-> TRUE]

\* VerticesInNormalizedOrder::access_in_normalized_order
access_in_normalized_order(normalized) == normalized.vertices

\* GlobalEdge::new: the vertices are stored in normalized order
GlobalEdge_new(curve, vertices) ==
    [curve |-> curve, vertices |-> VerticesInNormalizedOrder_new(vertices)]

\* HalfEdge::new(curve, vertices, global_form)
HalfEdge_new3(curve, vertices, global_form) ==
    [curve |-> curve, vertices |-> vertices, global_form |-> global_form]

\* HalfEdge::new(vertices, global_form): the half-edge's curve is the curve
\* of its back vertex
HalfEdge_new(objs, vertices, global_form) ==
    HalfEdge_new3(Deref(objs, vertices[1]).curve, vertices, global_form)

\* HalfEdge::back, HalfEdge::front
HalfEdge_back(objs, half_edge) == Deref(objs, half_edge.vertices[1])
HalfEdge_front(objs, half_edge) == Deref(objs, half_edge.vertices[2])

\* Vertex::global_form: the global form of the vertex's surface form
Vertex_global_form(objs, vertex) ==
    Deref(objs, Deref(objs, vertex).surface_form).global_form

\* Solid::new: the shells are collected into a set
Solid_new(shells) == [shells |-> shells]

\* the values a caller can hand to insert for a slot of the kind; references
\* are handles the stores have handed out
ValuesFor(objs, kind) ==
    CASE kind = "Surface" ->
            {Surface_new(SurfaceGeometry(u, v)) :
                u \in {GlobalPath_x_axis, GlobalPath_y_axis}, v \in {Vector_unit_y, Vector_unit_z}}
      [] kind = "GlobalCurve" -> {GlobalCurve}
      [] kind = "GlobalVertex" -> {GlobalVertex_new(p) : p \in Points3}
      [] kind = "Curve" ->
            {Curve_new(s, p, g) : s \in HandlesOf(objs, "Surface"),
                p \in SurfacePaths, g \in HandlesOf(objs, "GlobalCurve")}
      [] kind = "SurfaceVertex" ->
            {SurfaceVertex_new(p, s, g) : p \in Points2,
                s \in HandlesOf(objs, "Surface"),
                g \in HandlesOf(objs, "GlobalVertex")}
      [] kind = "Vertex" ->
            {Vertex_new(p, c, s) : p \in CurveCoords,
                c \in HandlesOf(objs, "Curve"),
                s \in HandlesOf(objs, "SurfaceVertex")}
      [] kind = "GlobalEdge" ->
            {GlobalEdge_new(c, <<a, b>>) : c \in HandlesOf(objs, "GlobalCurve"),
                a \in HandlesOf(objs, "GlobalVertex"),
                b \in HandlesOf(objs, "GlobalVertex")}
      [] kind = "HalfEdge" ->
            {HalfEdge_new3(c, <<a, b>>, g) : c \in HandlesOf(objs, "Curve"),
                a \in HandlesOf(objs, "Vertex"),
                b \in HandlesOf(objs, "Vertex"),
                g \in HandlesOf(objs, "GlobalEdge")}
      [] kind = "Cycle" ->
            {[half_edges |-> <<h>>] : h \in HandlesOf(objs, "HalfEdge")}
      [] kind = "Face" ->
            {[surface |-> s, exterior |-> c] :
                s \in HandlesOf(objs, "Surface"),
                c \in HandlesOf(objs, "Cycle")}
      [] kind = "Shell" -> {[faces |-> {f}] : f \in HandlesOf(objs, "Face")}
      [] kind = "Sketch" -> {[faces |-> {f}] : f \in HandlesOf(objs, "Face")}
      [] kind = "Solid" -> {Solid_new({s}) : s \in HandlesOf(objs, "Shell")}

(***************************************************************************)
(* The operations of the stores, as steps of a program that uses them.     *)
(***************************************************************************)

\* Curves::reserve, ..., Vertices::reserve
Reserve(kind) ==
    /\ fuel > 0
    /\ fuel' = fuel - 1
    /\ objects' = Stores_reserve(objects, kind)
    /\ result' = [op |-> "reserve", handle |-> Len(objects) + 1]

\* Curves::insert, ..., Vertices::insert on a reserved, still empty slot
Insert(handle, value) ==
    /\ fuel > 0
    /\ ~objects[handle].full
    /\ fuel' = fuel - 1
    /\ objects' = Stores_insert(objects, handle, value)
    /\ result' = [op |-> "insert", handle |-> handle, value |-> value]

StoreNext ==
    \/ \E kind \in Kinds : Reserve(kind)
    \/ \E handle \in DOMAIN objects :
          \E value \in ValuesFor(objects, objects[handle].kind) :
              Insert(handle, value)

NoResult == [op |-> "none"]

\* the stores right after Objects::new()
StoreInit(budget) ==
    /\ objects = Objects_new
    /\ result = NoResult
    /\ fuel = budget

(***************************************************************************)
(* fj-kernel validate/edge.rs: validation of a HalfEdge.                   *)
(***************************************************************************)

\* ValidationConfig: distinct_min_distance, in grid units
ValidationConfigs ==
    {[distinct_min_distance |-> d] : d \in 1..MaxMinDistance}

\* impl Default for ValidationConfig
ValidationConfig_default ==
    [distinct_min_distance |-> DefaultDistinctMinDistance]

Ok == [tag |-> "Ok"]

\* (back_position - front_position).magnitude() of two Point<1>
Magnitude1(d) == IF d < 0 THEN -d ELSE d

\* a check that compares the content of the two curves instead of their ids
check_curve_identity_by_content(objs, half_edge) ==
    LET back_curve == HalfEdge_back(objs, half_edge).curve
        front_curve == HalfEdge_front(objs, half_edge).curve
    IN  IF Deref(objs, back_curve) # Deref(objs, front_curve)
        THEN [tag |-> "CurveMismatch", back_curve |-> back_curve,
              front_curve |-> front_curve]
        ELSE Ok

\* HalfEdgeValidationError::check_curve_identity
check_curve_identity(objs, half_edge) ==
    LET back_curve == HalfEdge_back(objs, half_edge).curve
        front_curve == HalfEdge_front(objs, half_edge).curve
    IN  IF Handle_id(back_curve) # Handle_id(front_curve)
        THEN [tag |-> "CurveMismatch", back_curve |-> back_curve,
              front_curve |-> front_curve]
        ELSE Ok

\* HalfEdgeValidationError::check_global_curve_identity
check_global_curve_identity(objs, half_edge) ==
    LET global_curve_from_curve ==
            Deref(objs, half_edge.curve).global_form
        global_curve_from_global_form ==
            Deref(objs, half_edge.global_form).curve
    IN  IF Handle_id(global_curve_from_curve)
               # Handle_id(global_curve_from_global_form)
        THEN [tag |-> "GlobalCurveMismatch",
              global_curve_from_curve |-> global_curve_from_curve,
              global_curve_from_global_form |-> global_curve_from_global_form]
        ELSE Ok

\* a check that takes the global vertices of the half-edge's vertices in
\* the order of the vertices
check_global_vertex_identity_in_order(objs, half_edge) ==
    LET global_vertices_from_vertices ==
            <<Vertex_global_form(objs, half_edge.vertices[1]),
              Vertex_global_form(objs, half_edge.vertices[2])>>
        global_vertices_from_global_form ==
            access_in_normalized_order(
                Deref(objs, half_edge.global_form).vertices)
        ids_from_vertices ==
            <<Handle_id(global_vertices_from_vertices[1]),
              Handle_id(global_vertices_from_vertices[2])>>
        ids_from_global_form ==
            <<Handle_id(global_vertices_from_global_form[1]),
              Handle_id(global_vertices_from_global_form[2])>>
    IN  IF ids_from_vertices # ids_from_global_form
        THEN [tag |-> "GlobalVertexMismatch",
              global_vertices_from_vertices |-> global_vertices_from_vertices,
              global_vertices_from_global_form |->
                  global_vertices_from_global_form]
        ELSE Ok

\* HalfEdgeValidationError::check_global_vertex_identity
check_global_vertex_identity(objs, half_edge) ==
    LET global_vertices_from_vertices ==
            access_in_normalized_order(VerticesInNormalizedOrder_new(
                <<Vertex_global_form(objs, half_edge.vertices[1]),
                  Vertex_global_form(objs, half_edge.vertices[2])>>))
        global_vertices_from_global_form ==
            access_in_normalized_order(
                Deref(objs, half_edge.global_form).vertices)
        ids_from_vertices ==
            <<Handle_id(global_vertices_from_vertices[1]),
              Handle_id(global_vertices_from_vertices[2])>>
        ids_from_global_form ==
            <<Handle_id(global_vertices_from_global_form[1]),
              Handle_id(global_vertices_from_global_form[2])>>
    IN  IF ids_from_vertices # ids_from_global_form
        THEN [tag |-> "GlobalVertexMismatch",
              global_vertices_from_vertices |-> global_vertices_from_vertices,
              global_vertices_from_global_form |->
                  global_vertices_from_global_form]
        ELSE Ok

\* a check that also rejects a distance equal to the threshold
check_vertex_positions_inclusive(objs, half_edge, config) ==
    LET back_position == HalfEdge_back(objs, half_edge).position
        front_position == HalfEdge_front(objs, half_edge).position
        distance == Magnitude1(back_position - front_position)
    IN  IF distance <= config.distinct_min_distance
        THEN [tag |-> "VerticesAreCoincident",
              back_position |-> back_position,
              front_position |-> front_position, distance |-> distance]
        ELSE Ok

\* HalfEdgeValidationError::check_vertex_positions
check_vertex_positions(objs, half_edge, config) ==
    LET back_position == HalfEdge_back(objs, half_edge).position
        front_position == HalfEdge_front(objs, half_edge).position
        distance == Magnitude1(back_position - front_position)
    IN  IF distance < config.distinct_min_distance
        THEN [tag |-> "VerticesAreCoincident",
              back_position |-> back_position,
              front_position |-> front_position, distance |-> distance]
        ELSE Ok

\* impl Validate for HalfEdge: the four checks in order, the first error
\* is returned
HalfEdge_validate_with_config(objs, half_edge, config) ==
    LET curve == check_curve_identity(objs, half_edge)
        global_curve == check_global_curve_identity(objs, half_edge)
        global_vertex == check_global_vertex_identity(objs, half_edge)
        positions == check_vertex_positions(objs, half_edge, config)
    IN  IF curve # Ok THEN curve
        ELSE IF global_curve # Ok THEN global_curve
        ELSE IF global_vertex # Ok THEN global_vertex
        ELSE IF positions # Ok THEN positions
        ELSE Ok

\* Validate::validate: validation with the default configuration
HalfEdge_validate(objs, half_edge) ==
    HalfEdge_validate_with_config(objs, half_edge, ValidationConfig_default)

(***************************************************************************)
(* The objects the tests of validate/edge.rs arrange: a valid half-edge on *)
(* the xy-plane, and beside it a curve, a global curve and a global vertex *)
(* that are equal to its own in content but are not identical to them.     *)
(***************************************************************************)
\* the handles, in the order in which TestObjects inserts the objects
T ==
    [global_curve |-> 4, other_global_curve |-> 5,
     global_back |-> 6, global_front |-> 7, other_global_back |-> 8,
     curve |-> 9, other_curve |-> 10,
     surface_back |-> 11, surface_front |-> 12,
     back |-> 13, front |-> 14, front_on_other_curve |-> 15, middle |-> 16,
     global_edge |-> 17, global_edge_on_other_curve |-> 18,
     global_edge_on_other_vertex |-> 19,
     half_edge |-> 20, reserved_global_vertex |-> 21]

TestObjects ==
    LET o4 == Insert_insert(Objects_new, "GlobalCurve", GlobalCurve)
        o5 == Insert_insert(o4, "GlobalCurve", GlobalCurve)
        o6 == Insert_insert(o5, "GlobalVertex", GlobalVertex_new(<<0, 0, 0>>))
        o7 == Insert_insert(o6, "GlobalVertex", GlobalVertex_new(<<MaxCoord, 0, 0>>))
        o8 == Insert_insert(o7, "GlobalVertex", GlobalVertex_new(<<0, 0, 0>>))
        o9 == Insert_insert(o8, "Curve",
                  Curve_new(xy_plane, "u_axis", T.global_curve))
        o10 == Insert_insert(o9, "Curve",
                  Curve_new(xy_plane, "u_axis", T.global_curve))
        o11 == Insert_insert(o10, "SurfaceVertex",
                  SurfaceVertex_new(<<0, 0>>, xy_plane, T.global_back))
        o12 == Insert_insert(o11, "SurfaceVertex",
                  SurfaceVertex_new(<<MaxCoord, 0>>, xy_plane, T.global_front))
        o13 == Insert_insert(o12, "Vertex",
                  Vertex_new(0, T.curve, T.surface_back))
        o14 == Insert_insert(o13, "Vertex",
                  Vertex_new(MaxCoord, T.curve, T.surface_front))
        o15 == Insert_insert(o14, "Vertex",
                  Vertex_new(MaxCoord, T.other_curve, T.surface_front))
        o16 == Insert_insert(o15, "Vertex",
                  Vertex_new(MaxCoord - 2, T.curve, T.surface_front))
        o17 == Insert_insert(o16, "GlobalEdge",
                  GlobalEdge_new(T.global_curve,
                                 <<T.global_back, T.global_front>>))
        o18 == Insert_insert(o17, "GlobalEdge",
                  GlobalEdge_new(T.other_global_curve,
                                 <<T.global_back, T.global_front>>))
        o19 == Insert_insert(o18, "GlobalEdge",
                  GlobalEdge_new(T.global_curve,
                                 <<T.other_global_back, T.global_front>>))
        o20 == Insert_insert(o19, "HalfEdge",
                  HalfEdge_new(o19, <<T.back, T.front>>, T.global_edge))
    IN  Stores_reserve(o20, "GlobalVertex")

\* a half-edge all of whose references lead to filled slots
HalfEdgeResolved(objs, h) ==
    /\ objs[h].full
    /\ objs[Deref(objs, h).curve].full
    /\ objs[Deref(objs, h).global_form].full
    /\ \A i \in 1..2 :
          LET v == Deref(objs, h).vertices[i]
          IN  /\ objs[v].full
              /\ objs[Deref(objs, v).surface_form].full

(***************************************************************************)
(* Operations on half-edges.                                               *)
(***************************************************************************)

\* HalfEdge::new(vertices, global_form) followed by Insert::insert
InsertHalfEdge(back, front, global_form) ==
    /\ fuel > 0
    /\ fuel' = fuel - 1
    /\ objects' = Insert_insert(objects, "HalfEdge",
                      HalfEdge_new(objects, <<back, front>>, global_form))
    /\ result' = [op |-> "half_edge", handle |-> Len(objects) + 1]

\* a reversal that swaps the vertices of the stored half-edge in place
Reverse_reverse_in_place(objs, self) ==
    LET vertices == <<Deref(objs, self).vertices[2],
                      Deref(objs, self).vertices[1]>>
    IN  Store_insert(objs, self,
            HalfEdge_new3(Deref(objs, self).curve, vertices,
                          Deref(objs, self).global_form))

\* impl Reverse for Handle<HalfEdge>: the store after the call; the handle
\* returned is the one of the last slot
Reverse_reverse(objs, self) ==
    LET vertices == <<Deref(objs, self).vertices[2],
                      Deref(objs, self).vertices[1]>>
    IN  Insert_insert(objs, "HalfEdge",
            HalfEdge_new3(Deref(objs, self).curve, vertices,
                          Deref(objs, self).global_form))

Reverse(self) ==
    /\ fuel > 0
    /\ fuel' = fuel - 1
    /\ objects' = Reverse_reverse(objects, self)
    /\ result' = [op |-> "reverse", self |-> self, handle |-> Len(objects')]

\* HalfEdge::validate_with_config on a half-edge of the store
Validate(handle, config) ==
    /\ HalfEdgeResolved(objects, handle)
    /\ result' = [op |-> "validate", handle |-> handle, config |-> config,
                  value |-> HalfEdge_validate_with_config(
                                objects, Deref(objects, handle), config)]
    /\ UNCHANGED <<objects, fuel>>

\* Transform::translation applied to a point
Transform_transform_point(offset, point) ==
    <<point[1] + offset[1], point[2] + offset[2], point[3] + offset[3]>>

\* the translations a caller applies
Offsets == {<<x, 0, 0>> : x \in 1..MaxCoord}

\* impl TransformObject for Handle<T>, for T = GlobalVertex: the partial
\* object is transformed, built and inserted
Handle_transform_with_cache(objs, self, offset) ==
    Insert_insert(objs, "GlobalVertex",
        GlobalVertex_new(
            Transform_transform_point(offset, Deref(objs, self).position)))

Transform(self, offset) ==
    /\ fuel > 0
    /\ fuel' = fuel - 1
    /\ objects' = Handle_transform_with_cache(objects, self, offset)
    /\ result' = [op |-> "transform", self |-> self, handle |-> Len(objects')]

EdgeOps ==
    \/ \E back, front \in FullOf(objects, "Vertex") :
          \E global_form \in FullOf(objects, "GlobalEdge") :
              InsertHalfEdge(back, front, global_form)
    \/ \E self \in FullOf(objects, "HalfEdge") : Reverse(self)

EdgeNext ==
    \/ EdgeOps
    \/ \E handle \in FullOf(objects, "HalfEdge") :
          \E config \in ValidationConfigs : Validate(handle, config)

TransformNext ==
    \E self \in FullOf(objects, "GlobalVertex") :
        \E offset \in Offsets : Transform(self, offset)

\* the stores holding the objects of the tests, and a budget of operations
KernelInit(budget) ==
    /\ objects = TestObjects
    /\ result = NoResult
    /\ fuel = budget

(***************************************************************************)
(* fj-kernel partial: the partial objects and their build step.  A build   *)
(* returns the stores as it leaves them and how it ended: "Ok", "Err" (a   *)
(* validation error was returned) or "Panic" (the build aborted).          *)
(***************************************************************************)

\* Option::None of a handle, of a path and of a pair of vertices
NoHandle == 0
NoPath == "None"
NoVertices == << >>

\* MaybePartial::Full, MaybePartial::Partial
Full(handle) == [full |-> TRUE, handle |-> handle]
Partial(partial) == [full |-> FALSE, partial |-> partial]

\* PartialCurve; an absent global_form stands for a global form that is
\* still partial
PartialCurve(path, surface, global_form) ==
    [path |-> path, surface |-> surface, global_form |-> global_form]

\* PartialCurve::with_surface, called with an Option
PartialCurve_with_surface(partial, surface) ==
    IF surface # NoHandle THEN [partial EXCEPT !.surface = surface]
    ELSE partial

\* a build that makes the global form before it looks at the surface
PartialCurve_build_global_form_first(objs, partial) ==
    IF partial.path = NoPath THEN [objs |-> objs, out |-> "Panic"]
    ELSE LET inferred == partial.global_form = NoHandle
             after == IF inferred
                      THEN Insert_insert(objs, "GlobalCurve", GlobalCurve)
                      ELSE objs
             global_form == IF inferred THEN Len(after)
                            ELSE partial.global_form
         IN  IF partial.surface = NoHandle
             THEN [objs |-> after, out |-> "Panic"]
             ELSE [objs |-> after, out |-> "Ok",
                   value |-> Curve_new(partial.surface, partial.path,
                                       global_form)]

\* PartialCurve::build: the path and the surface are required; a global
\* form that was not provided is made and inserted.  The Curve is returned,
\* it is not inserted.
PartialCurve_build(objs, partial) ==
    IF partial.path = NoPath THEN [objs |-> objs, out |-> "Panic"]
    ELSE IF partial.surface = NoHandle THEN [objs |-> objs, out |-> "Panic"]
    ELSE LET inferred == partial.global_form = NoHandle
             after == IF inferred
                      THEN Insert_insert(objs, "GlobalCurve", GlobalCurve)
                      ELSE objs
             global_form == IF inferred THEN Len(after)
                            ELSE partial.global_form
         IN  [objs |-> after, out |-> "Ok",
              value |-> Curve_new(partial.surface, partial.path, global_form)]

\* MaybePartial<Curve>::into_full: a full object is reused, a partial one
\* is built and inserted
Curve_into_full(objs, curve) ==
    IF curve.full THEN [objs |-> objs, out |-> "Ok", handle |-> curve.handle]
    ELSE LET built == PartialCurve_build(objs, curve.partial)
         IN  IF built.out # "Ok" THEN [objs |-> built.objs, out |-> built.out]
             ELSE [objs |-> Insert_insert(built.objs, "Curve", built.value),
                   out |-> "Ok", handle |-> Len(built.objs) + 1]

\* PartialVertex with a position and a full surface form
PartialVertex(position, surface_form) ==
    [position |-> position, surface_form |-> surface_form]

\* MaybePartial<Vertex>::update_partial(with_curve) and into_full: a full
\* vertex is reused as it is, a partial one is built on the curve
Vertex_into_full(objs, vertex, curve) ==
    IF vertex.full THEN [objs |-> objs, handle |-> vertex.handle]
    ELSE [objs |-> Insert_insert(objs, "Vertex",
                       Vertex_new(vertex.partial.position, curve,
                                  vertex.partial.surface_form)),
          handle |-> Len(objs) + 1]

\* MaybePartial<GlobalVertex>::into_full
GlobalVertex_into_full(objs, global_vertex) ==
    IF global_vertex.full
    THEN [objs |-> objs, handle |-> global_vertex.handle]
    ELSE [objs |-> Insert_insert(objs, "GlobalVertex",
                       GlobalVertex_new(global_vertex.partial.position)),
          handle |-> Len(objs) + 1]

\* PartialGlobalEdge
PartialGlobalEdge(curve, vertices) == [curve |-> curve, vertices |-> vertices]

\* PartialGlobalEdge::with_curve
PartialGlobalEdge_with_curve(partial, curve) ==
    IF curve # NoHandle THEN [partial EXCEPT !.curve = curve] ELSE partial

\* PartialGlobalEdge::with_vertices
PartialGlobalEdge_with_vertices(partial, vertices) ==
    IF vertices # NoVertices THEN [partial EXCEPT !.vertices = vertices]
    ELSE partial

\* an update that keeps a curve and vertices the partial already has
PartialGlobalEdge_keep_curve_and_vertices(objs, partial, curve, vertices) ==
    LET from_curve ==
            IF partial.curve = NoHandle
            THEN PartialGlobalEdge_with_curve(partial,
                     Deref(objs, curve).global_form)
            ELSE partial
    IN  IF partial.vertices = NoVertices
        THEN PartialGlobalEdge_with_vertices(from_curve,
                 <<Full(Vertex_global_form(objs, vertices[1])),
                   Full(Vertex_global_form(objs, vertices[2]))>>)
        ELSE from_curve

\* PartialGlobalEdge::from_curve_and_vertices /
\* GlobalEdgeBuilder::update_from_curve_and_vertices
PartialGlobalEdge_from_curve_and_vertices(objs, partial, curve, vertices) ==
    PartialGlobalEdge_with_vertices(
        PartialGlobalEdge_with_curve(partial, Deref(objs, curve).global_form),
        <<Full(Vertex_global_form(objs, vertices[1])),
          Full(Vertex_global_form(objs, vertices[2]))>>)

\* PartialGlobalEdge::build: the curve and the vertices are required; the
\* vertices are made full and the GlobalEdge is inserted
PartialGlobalEdge_build(objs, partial) ==
    IF partial.curve = NoHandle THEN [objs |-> objs, out |-> "Panic"]
    ELSE IF partial.vertices = NoVertices
    THEN [objs |-> objs, out |-> "Panic"]
    ELSE LET a == GlobalVertex_into_full(objs, partial.vertices[1])
             b == GlobalVertex_into_full(a.objs, partial.vertices[2])
         IN  [objs |-> Insert_insert(b.objs, "GlobalEdge",
                           GlobalEdge_new(partial.curve,
                                          <<a.handle, b.handle>>)),
              out |-> "Ok", handle |-> Len(b.objs) + 1]

\* MaybePartial<GlobalEdge>::into_full
GlobalEdge_into_full(objs, global_edge) ==
    IF global_edge.full
    THEN [objs |-> objs, out |-> "Ok", handle |-> global_edge.handle]
    ELSE PartialGlobalEdge_build(objs, global_edge.partial)

\* objects.half_edges.insert(half_edge)?: the half-edge is validated with
\* the default configuration, and it is inserted if it is valid
HalfEdges_insert(objs, half_edge) ==
    LET validation == HalfEdge_validate(objs, half_edge)
    IN  IF validation # Ok
        THEN [objs |-> objs, out |-> "Err", error |-> validation]
        ELSE [objs |-> Insert_insert(objs, "HalfEdge", half_edge),
              out |-> "Ok", handle |-> Len(objs) + 1]

\* PartialHalfEdge
PartialHalfEdge(surface, curve, vertices, global_form) ==
    [surface |-> surface, curve |-> curve, vertices |-> vertices,
     global_form |-> global_form]

\* PartialHalfEdge::build: the curve, then the vertices on that curve, then
\* the global form are made full; the half-edge is validated when it is
\* inserted, and a validation error is returned
PartialHalfEdge_build(objs, self) ==
    LET curve ==
            Curve_into_full(objs,
                IF self.curve.full THEN self.curve
                ELSE Partial(PartialCurve_with_surface(self.curve.partial,
                                                       self.surface)))
    IN  IF curve.out # "Ok" THEN [objs |-> curve.objs, out |-> curve.out]
        ELSE
        LET back == Vertex_into_full(curve.objs, self.vertices[1],
                                     curve.handle)
            front == Vertex_into_full(back.objs, self.vertices[2],
                                      curve.handle)
            vertices == <<back.handle, front.handle>>
            global_form ==
                GlobalEdge_into_full(front.objs,
                    IF self.global_form.full THEN self.global_form
                    ELSE Partial(PartialGlobalEdge_from_curve_and_vertices(
                             front.objs, self.global_form.partial,
                             curve.handle, vertices)))
            half_edge == HalfEdge_new(global_form.objs, vertices,
                                      global_form.handle)
            inserted == HalfEdges_insert(global_form.objs, half_edge)
        IN  [f \in DOMAIN inserted \cup {"curve", "vertices", "half_edge"} |->
                 CASE f = "curve" -> curve.handle
                   [] f = "vertices" -> vertices
                   [] f = "half_edge" -> half_edge
                   [] OTHER -> inserted[f]]

(***************************************************************************)
(* The partial objects a caller builds.                                    *)
(***************************************************************************)
PartialCurves ==
    {PartialCurve(path, surface, global_form) :
        path \in {NoPath, "u_axis"}, surface \in {NoHandle, xy_plane},
        global_form \in {NoHandle, T.other_global_curve}}

PartialGlobalEdges ==
    {PartialGlobalEdge(curve, vertices) :
        curve \in {NoHandle, T.other_global_curve},
        vertices \in {NoVertices,
                      <<Full(T.other_global_back), Full(T.global_front)>>,
                      <<Partial([position |-> <<1, 0, 0>>]),
                        Full(T.global_front)>>}}

PartialHalfEdges ==
    {PartialHalfEdge(surface, curve, <<back, front>>, global_form) :
        surface \in {NoHandle, xy_plane},
        curve \in {Full(T.curve)}
                  \cup {Partial(PartialCurve(path, NoHandle, NoHandle)) :
                            path \in {NoPath, "u_axis"}},
        back \in {Full(T.back), Full(T.front),
                  Partial(PartialVertex(0, T.surface_back))},
        front \in {Full(T.front), Full(T.back), Full(T.front_on_other_curve),
                   Partial(PartialVertex(MaxCoord, T.surface_front))},
        global_form \in {Full(T.global_edge),
                         Full(T.global_edge_on_other_curve)}
                        \cup {Partial(p) : p \in PartialGlobalEdges}}

\* PartialCurve::build called by a program
BuildCurve(partial) ==
    /\ fuel > 0
    /\ fuel' = fuel - 1
    /\ LET built == PartialCurve_build(objects, partial)
       IN  /\ objects' = built.objs
           /\ result' = [op |-> "build_curve", partial |-> partial,
                         out |-> built.out]

\* PartialGlobalEdge::build called by a program
BuildGlobalEdge(partial) ==
    /\ fuel > 0
    /\ fuel' = fuel - 1
    /\ LET built == PartialGlobalEdge_build(objects, partial)
       IN  /\ objects' = built.objs
           /\ result' = [op |-> "build_global_edge", partial |-> partial,
                         out |-> built.out]

\* PartialHalfEdge::build called by a program
BuildHalfEdge(partial) ==
    /\ fuel > 0
    /\ fuel' = fuel - 1
    /\ LET built == PartialHalfEdge_build(objects, partial)
       IN  /\ objects' = built.objs
           /\ result' = [op |-> "build_half_edge", partial |-> partial,
                         built |-> [f \in DOMAIN built \ {"objs"} |-> built[f]]]

BuildNext ==
    \/ \E partial \in PartialCurves : BuildCurve(partial)
    \/ \E partial \in PartialGlobalEdges : BuildGlobalEdge(partial)
    \/ \E partial \in PartialHalfEdges : BuildHalfEdge(partial)
(***************************************************************************)
(* fj-kernel partial: merging two partial curves.                          *)
(***************************************************************************)

\* Option::merge_with: the first value that is present
Option_merge_with(self, other, none) == IF self # none THEN self ELSE other

\* MaybePartial<GlobalCurve>::merge_with: a full global form is preferred
\* to a partial one; PartialGlobalCurve::merge_with of two partial ones
\* returns the first
MaybePartial_merge_with(self, other) ==
    IF self # NoHandle THEN self ELSE other

\* a merge that prefers the surface of the other partial curve
PartialCurve_merge_with_other_surface(self, other) ==
    PartialCurve(Option_merge_with(self.path, other.path, NoPath),
                 Option_merge_with(other.surface, self.surface, NoHandle),
                 MaybePartial_merge_with(self.global_form, other.global_form))

\* impl MergeWith for PartialCurve
PartialCurve_merge_with(self, other) ==
    PartialCurve(Option_merge_with(self.path, other.path, NoPath),
                 Option_merge_with(self.surface, other.surface, NoHandle),
                 MaybePartial_merge_with(self.global_form, other.global_form))

\* PartialCurve::default()
PartialCurve_default == PartialCurve(NoPath, NoHandle, NoHandle)

\* the partial curves a caller merges
MergedCurves ==
    {PartialCurve(path, surface, global_form) :
        path \in {NoPath} \cup SurfacePaths,
        surface \in {NoHandle, xy_plane, xz_plane},
        global_form \in {NoHandle, T.global_curve, T.other_global_curve}}

\* self.merge_with(other) called by a program
MergeWith(self, other) ==
    /\ result' = [op |-> "merge", self |-> self, other |-> other,
                  merged |-> PartialCurve_merge_with(self, other)]
    /\ UNCHANGED <<objects, fuel>>

MergeNext == \E self, other \in MergedCurves : MergeWith(self, other)

(***************************************************************************)
(* fj-kernel validate/mod.rs and iter.rs: uniqueness validation of a       *)
(* shape, which is a Vec of handles to GlobalVertices.                     *)
(***************************************************************************)

\* positions of the vertices of a shape, and the configurations it is
\* validated with
ShapePoints == {<<x, 0, 0>> : x \in 0..MaxShapeCoord}
ShapeConfigs == {[distinct_min_distance |-> d] : d \in 1..MaxShapeCoord}

\* GlobalVertex is a Copy value kept in a HashSet: its equality is the
\* equality of its position
GlobalVertex_eq(a, b) == a.position = b.position

\* Iter::from_object
Iter_from_object(object) == <<object>>

\* Iter::with: an object of other is appended unless an equal object is
\* already there
RECURSIVE Iter_with(_, _)
Iter_with(self, other) ==
    IF other = << >> THEN self
    ELSE Iter_with(
             IF \E i \in DOMAIN self : GlobalVertex_eq(self[i], Head(other))
             THEN self
             ELSE Append(self, Head(other)),
             Tail(other))

\* ObjectIters::global_vertex_iter of a collection of handles
RECURSIVE global_vertex_iter(_, _)
global_vertex_iter(objs, shape) ==
    IF shape = << >> THEN << >>
    ELSE Iter_with(
             global_vertex_iter(objs, SubSeq(shape, 1, Len(shape) - 1)),
             Iter_from_object(Deref(objs, shape[Len(shape)])))

\* the square of (a - b).magnitude()
DistanceSquared(a, b) ==
    (a[1] - b[1]) * (a[1] - b[1]) + (a[2] - b[2]) * (a[2] - b[2])
        + (a[3] - b[3]) * (a[3] - b[3])

\* uniqueness::validate_vertex: a vertex closer than min_distance to a
\* vertex seen before is a duplicate; the distances are compared by their
\* squares
uniqueness_validate_vertex(vertex, vertices, min_distance) ==
    IF \E existing \in vertices :
           DistanceSquared(existing.position, vertex.position)
               < min_distance * min_distance
    THEN [tag |-> "Uniqueness",
          duplicate_vertex |->
              CHOOSE existing \in vertices :
                  DistanceSquared(existing.position, vertex.position)
                      < min_distance * min_distance]
    ELSE Ok

\* the loop of validate_with_config over the vertices that are left to
\* walk, with the set of the vertices seen so far
RECURSIVE validate_vertices(_, _, _)
validate_vertices(iter, global_vertices, config) ==
    IF iter = << >> THEN Ok
    ELSE LET checked == uniqueness_validate_vertex(
                            Head(iter), global_vertices,
                            config.distinct_min_distance)
         IN  IF checked # Ok THEN checked
             ELSE validate_vertices(Tail(iter),
                                    global_vertices \cup {Head(iter)}, config)

\* impl Validate for T: ObjectIters
Shape_validate_with_config(objs, shape, config) ==
    validate_vertices(global_vertex_iter(objs, shape), {}, config)

\* the shapes over the vertices of the store: every vertex at most once, in
\* any order
RECURSIVE ShapesOver(_)
ShapesOver(handles_) ==
    {<< >>} \cup UNION {{<<h>> \o s : s \in ShapesOver(handles_ \ {h})} :
                            h \in handles_}

\* objects.global_vertices.insert(GlobalVertex::from_position(position))
InsertGlobalVertex(position) ==
    /\ fuel > 0
    /\ fuel' = fuel - 1
    /\ objects' = Insert_insert(objects, "GlobalVertex",
                                GlobalVertex_new(position))
    /\ result' = [op |-> "global_vertex", handle |-> Len(objects) + 1]

\* shape.validate_with_config(&config)
ValidateShape(shape, config) ==
    /\ result' = [op |-> "validate_shape", shape |-> shape,
                  config |-> config,
                  value |-> Shape_validate_with_config(objects, shape,
                                                       config)]
    /\ UNCHANGED <<objects, fuel>>

UniquenessNext ==
    \/ \E position \in ShapePoints : InsertGlobalVertex(position)
    \/ \E shape \in ShapesOver(FullOf(objects, "GlobalVertex")) :
          \E config \in ShapeConfigs : ValidateShape(shape, config)

(***************************************************************************)
(* fj-kernel algorithms/sweep: sweeping a global vertex, a vertex and a    *)
(* half-edge along a path.  A sweep returns the stores and the cache as it *)
(* leaves them, with what it produced.                                     *)
(***************************************************************************)

\* SweepCache::default(): no global vertex has been swept
SweepCache_default == [global_vertex |-> << >>]

\* the paths a caller sweeps along
SweepPaths == {Vector_unit_y, Vector_unit_z}

\* Point<3> + Vector<3>
Point_plus(point, vector) ==
    <<point[1] + vector[1], point[2] + vector[2], point[3] + vector[3]>>

\* a value handed to what is done with it next: the statements of a
\* function one after the other, each computed before the next begins
Then(value, F(_)) == IF value = value THEN F(value) ELSE F(value)

\* a sweep of a global vertex that does not look into the cache
GlobalVertex_sweep_uncached(objs, cache_, self, path) ==
    LET o1 == Insert_insert(objs, "GlobalCurve", GlobalCurve)
        curve == Len(o1)
        o2 == Insert_insert(o1, "GlobalVertex",
                  GlobalVertex_new(
                      Point_plus(Deref(objs, self).position, path)))
        b == Len(o2)
        o3 == Insert_insert(o2, "GlobalEdge",
                  GlobalEdge_new(curve, <<self, b>>))
    IN  [objs |-> o3,
         cache |-> [cache_ EXCEPT
                        !.global_vertex = (self :> b) @@ cache_.global_vertex],
         global_edge |-> Len(o3), vertices |-> <<self, b>>]

\* impl Sweep for Handle<GlobalVertex>: a fresh GlobalCurve, the swept
\* vertex of the cache entry of self.id() (made and entered if there is
\* none), and a fresh GlobalEdge; the vertices are returned in swept order
GlobalVertex_sweep_with_cache(objs, cache_, self, path) ==
    LET o1 == Insert_insert(objs, "GlobalCurve", GlobalCurve)
        curve == Len(o1)
        cached == Handle_id(self) \in DOMAIN cache_.global_vertex
        o2 == IF cached THEN o1
              ELSE Insert_insert(o1, "GlobalVertex",
                       GlobalVertex_new(
                           Point_plus(Deref(objs, self).position, path)))
        b == IF cached THEN cache_.global_vertex[Handle_id(self)]
             ELSE Len(o2)
        o3 == Insert_insert(o2, "GlobalEdge",
                  GlobalEdge_new(curve, <<self, b>>))
    IN  [objs |-> o3,
         cache |-> IF cached THEN cache_
                   ELSE [cache_ EXCEPT
                             !.global_vertex =
                                 (Handle_id(self) :> b) @@ cache_.global_vertex],
         global_edge |-> Len(o3), vertices |-> <<self, b>>]

\* SurfacePath::line_from_points, Line::from_points_with_line_coords
SurfacePath_line_from_points(points) ==
    [origin |-> points[1],
     direction |-> <<points[2][1] - points[1][1],
                     points[2][2] - points[1][2]>>]

\* a pair of points that does not leave the u-curve of the surface
VertexSurface_points_surface_flat(t) == <<<<t, 0>>, <<t, 0>>>>

\* points_surface: the surface coordinates of the two vertices of the swept
\* edge; the edge starts at v = 0 and ends at v = 1
VertexSurface_points_surface(t) == <<<<t, 0>>, <<t, Scalar_ONE>>>>

\* impl Sweep for (Handle<Vertex>, Handle<Surface>), after the assertion
VertexSurface_sweep_asserted(objs, cache_, vertex, surface, path) ==
    LET t == Deref(objs, vertex).position
        points_surface == VertexSurface_points_surface(t)
    IN
    Then(GlobalVertex_sweep_with_cache(
             objs, cache_, Vertex_global_form(objs, vertex), path),
         LAMBDA global :
    Then(Insert_insert(global.objs, "Curve",
             Curve_new(surface, SurfacePath_line_from_points(points_surface),
                       Deref(global.objs, global.global_edge).curve)),
         LAMBDA o1 :
    Then(Insert_insert(o1, "SurfaceVertex",
             SurfaceVertex_new(points_surface[2], surface,
                               global.vertices[2])),
         LAMBDA o2 :
    Then(<<Deref(objs, vertex).surface_form, Len(o2)>>,
         LAMBDA vertices_surface :
    Then(Insert_insert(o2, "Vertex",
             Vertex_new(Deref(o2, vertices_surface[1]).position[2],
                        Len(o1), vertices_surface[1])),
         LAMBDA o3 :
    Then(Insert_insert(o3, "Vertex",
             Vertex_new(Deref(o2, vertices_surface[2]).position[2],
                        Len(o1), vertices_surface[2])),
         LAMBDA o4 :
    Then(Insert_insert(o4, "HalfEdge",
             HalfEdge_new(o4, <<Len(o3), Len(o4)>>, global.global_edge)),
         LAMBDA o5 :
    [objs |-> o5, cache |-> global.cache, out |-> "Ok",
     half_edge |-> Len(o5), edge_global |-> global.global_edge,
     vertices_global |-> global.vertices])))))))

\* a sweep of a vertex that compares the path with the surface after it
\* has swept the global vertex
VertexSurface_sweep_assert_late(objs, cache_, vertex, surface, path) ==
    LET global == GlobalVertex_sweep_with_cache(
                      objs, cache_, Vertex_global_form(objs, vertex), path)
    IN  IF path # Deref(objs, surface).geometry.v
        THEN [objs |-> global.objs, cache |-> global.cache, out |-> "Panic"]
        ELSE VertexSurface_sweep_asserted(objs, cache_, vertex, surface, path)

\* impl Sweep for (Handle<Vertex>, Handle<Surface>): the path must be the
\* one that made the surface
VertexSurface_sweep_with_cache(objs, cache_, vertex, surface, path) ==
    IF path # Deref(objs, surface).geometry.v
    THEN [objs |-> objs, cache |-> cache_, out |-> "Panic"]
    ELSE VertexSurface_sweep_asserted(objs, cache_, vertex, surface, path)

\* Curve::sweep_with_cache: the surface the curve sweeps out; its u is the
\* path of the curve and its v is the path of the sweep
Curve_sweep_with_cache(objs, curve, path) ==
    Insert_insert(objs, "Surface",
        Surface_new(SurfaceGeometry(Deref(objs, curve).path, path)))

\* Handle<GlobalCurve>::translate: the transformed global curve is a new
\* object
GlobalCurve_translate(objs, global_curve, path) ==
    Insert_insert(objs, "GlobalCurve", GlobalCurve)

\* Cycle::new
Cycle_new(half_edges) == [half_edges |-> half_edges]

\* Face::partial().with_exterior(cycle).with_color(color).build(objects)
Face_new(objs, exterior, color) ==
    [surface |->
         Deref(objs, Deref(objs, Deref(objs, exterior).half_edges[1]).curve)
             .surface,
     exterior |-> exterior, color |-> color]

\* the bottom edge of the swept face: the swept edge, defined again in the
\* surface
BottomEdge(objs, surface, edge) ==
    LET vertices == Deref(objs, edge).vertices
        position(i) == Deref(objs, vertices[i]).position
        points_surface == <<<<position(1), 0>>, <<position(2), 0>>>>
    IN
    Then(Insert_insert(objs, "Curve",
             Curve_new(surface, SurfacePath_line_from_points(points_surface),
                       Deref(objs, Deref(objs, edge).curve).global_form)),
         LAMBDA o1 :
    Then(Insert_insert(o1, "SurfaceVertex",
             SurfaceVertex_new(points_surface[1], surface,
                               Vertex_global_form(objs, vertices[1]))),
         LAMBDA o2 :
    Then(Insert_insert(o2, "Vertex",
             Vertex_new(position(1), Len(o1), Len(o2))),
         LAMBDA o3 :
    Then(Insert_insert(o3, "SurfaceVertex",
             SurfaceVertex_new(points_surface[2], surface,
                               Vertex_global_form(objs, vertices[2]))),
         LAMBDA o4 :
    Then(Insert_insert(o4, "Vertex",
             Vertex_new(position(2), Len(o1), Len(o4))),
         LAMBDA o5 :
    Then(Insert_insert(o5, "HalfEdge",
             HalfEdge_new(o5, <<Len(o3), Len(o5)>>,
                          Deref(objs, edge).global_form)),
         LAMBDA o6 :
    [objs |-> o6, half_edge |-> Len(o6)]))))))

\* a top edge that keeps the global edge of the bottom edge instead of
\* making one on the translated global curve
TopEdge_on_bottom_global_edge(objs, surface, bottom_edge, side_edges, path) ==
    LET bottom_vertices == Deref(objs, bottom_edge).vertices
        surface_vertices ==
            <<Deref(objs, Deref(objs, side_edges[1]).vertices[2]).surface_form,
              Deref(objs, Deref(objs, side_edges[2]).vertices[2]).surface_form>>
        position(i) == Deref(objs, bottom_vertices[i]).position
        points_surface == <<<<position(1), Scalar_ONE>>,
                            <<position(2), Scalar_ONE>>>>
    IN
    Then(GlobalCurve_translate(objs,
             Deref(objs, Deref(objs, bottom_edge).curve).global_form, path),
         LAMBDA o1 :
    Then(Insert_insert(o1, "Curve",
             Curve_new(surface, SurfacePath_line_from_points(points_surface),
                       Len(o1))),
         LAMBDA o2 :
    Then(Insert_insert(o2, "Vertex",
             Vertex_new(position(1), Len(o2), surface_vertices[1])),
         LAMBDA o4 :
    Then(Insert_insert(o4, "Vertex",
             Vertex_new(position(2), Len(o2), surface_vertices[2])),
         LAMBDA o5 :
    Then(Insert_insert(o5, "HalfEdge",
             HalfEdge_new(o5, <<Len(o4), Len(o5)>>,
                          Deref(objs, bottom_edge).global_form)),
         LAMBDA o6 :
    [objs |-> o6, half_edge |-> Len(o6)])))))

\* the top edge of the swept face: it joins the front vertices of the two
\* side edges, on the translated global curve of the bottom edge
TopEdge(objs, surface, bottom_edge, side_edges, path) ==
    LET bottom_vertices == Deref(objs, bottom_edge).vertices
        surface_vertices ==
            <<Deref(objs, Deref(objs, side_edges[1]).vertices[2]).surface_form,
              Deref(objs, Deref(objs, side_edges[2]).vertices[2]).surface_form>>
        position(i) == Deref(objs, bottom_vertices[i]).position
        points_surface == <<<<position(1), Scalar_ONE>>,
                            <<position(2), Scalar_ONE>>>>
    IN
    Then(GlobalCurve_translate(objs,
             Deref(objs, Deref(objs, bottom_edge).curve).global_form, path),
         LAMBDA o1 :
    Then(Insert_insert(o1, "Curve",
             Curve_new(surface, SurfacePath_line_from_points(points_surface),
                       Len(o1))),
         LAMBDA o2 :
    Then(Insert_insert(o2, "GlobalEdge",
             GlobalEdge_new(Deref(o2, Len(o2)).global_form,
                 <<Deref(objs, surface_vertices[1]).global_form,
                   Deref(objs, surface_vertices[2]).global_form>>)),
         LAMBDA o3 :
    Then(Insert_insert(o3, "Vertex",
             Vertex_new(position(1), Len(o2), surface_vertices[1])),
         LAMBDA o4 :
    Then(Insert_insert(o4, "Vertex",
             Vertex_new(position(2), Len(o2), surface_vertices[2])),
         LAMBDA o5 :
    Then(Insert_insert(o5, "HalfEdge",
             HalfEdge_new(o5, <<Len(o4), Len(o5)>>, Len(o3))),
         LAMBDA o6 :
    [objs |-> o6, half_edge |-> Len(o6)]))))))

\* an order of the four edges that takes the side edges as they come
CycleEdges_sides_in_order(bottom_edge, side_edges, top_edge) ==
    <<bottom_edge, side_edges[1], top_edge, side_edges[2]>>

\* let a = bottom_edge; let [d, b] = side_edges; let c = top_edge;
\* edges = [a, b, c, d]
CycleEdges(bottom_edge, side_edges, top_edge) ==
    <<bottom_edge, side_edges[2], top_edge, side_edges[1]>>

\* the loop that makes sure the edges are oriented correctly, from index i
\* (counted from 1): edge j is reversed if its first surface vertex is not
\* the last surface vertex of edge i
RECURSIVE OrientEdges(_, _, _)
OrientEdges(objs, edges, i) ==
    IF i > Len(edges) THEN [objs |-> objs, edges |-> edges]
    ELSE LET j == (i % Len(edges)) + 1
             prev_last == Deref(objs, edges[i]).vertices[2]
             next_first == Deref(objs, edges[j]).vertices[1]
         IN  IF Handle_id(Deref(objs, prev_last).surface_form)
                    # Handle_id(Deref(objs, next_first).surface_form)
             THEN LET reversed == Reverse_reverse(objs, edges[j])
                  IN  OrientEdges(reversed,
                                  [edges EXCEPT ![j] = Len(reversed)], i + 1)
             ELSE OrientEdges(objs, edges, i + 1)

\* impl Sweep for (Handle<HalfEdge>, Color)
HalfEdge_sweep_with_cache(objs, cache_, edge, color, path) ==
    Then(Curve_sweep_with_cache(objs, Deref(objs, edge).curve, path),
         LAMBDA o1 :
    Then(BottomEdge(o1, Len(o1), edge),
         LAMBDA bottom :
    Then(Deref(bottom.objs, bottom.half_edge).vertices,
         LAMBDA bottom_vertices :
    Then(VertexSurface_sweep_with_cache(
             bottom.objs, cache_, bottom_vertices[1], Len(o1), path),
         LAMBDA side1 :
    Then(VertexSurface_sweep_with_cache(
             side1.objs, side1.cache, bottom_vertices[2], Len(o1), path),
         LAMBDA side2 :
    Then(<<side1.half_edge, side2.half_edge>>,
         LAMBDA side_edges :
    Then(TopEdge(side2.objs, Len(o1), bottom.half_edge, side_edges, path),
         LAMBDA top :
    Then(OrientEdges(top.objs,
             CycleEdges(bottom.half_edge, side_edges, top.half_edge), 1),
         LAMBDA oriented :
    Then(Insert_insert(oriented.objs, "Cycle", Cycle_new(oriented.edges)),
         LAMBDA o2 :
    Then(Insert_insert(o2, "Face", Face_new(o2, Len(o2), color)),
         LAMBDA o3 :
    [objs |-> o3, cache |-> side2.cache, face |-> Len(o3),
     bottom_edge |-> bottom.half_edge, side_edges |-> side_edges,
     top_edge |-> top.half_edge]))))))))))

(***************************************************************************)
(* The sweeps as steps of a program.                                       *)
(***************************************************************************)

\* a new top-level sweep starts with an empty cache
NewSweepCache ==
    /\ cache # SweepCache_default
    /\ cache' = SweepCache_default
    /\ result' = [op |-> "new_cache"]
    /\ UNCHANGED <<objects, fuel>>

SweepGlobalVertex(self, path) ==
    /\ fuel > 0
    /\ fuel' = fuel - 1
    /\ LET swept == GlobalVertex_sweep_with_cache(objects, cache, self, path)
       IN  /\ objects' = swept.objs
           /\ cache' = swept.cache
           /\ result' = [op |-> "sweep_global_vertex", self |-> self,
                         path |-> path, global_edge |-> swept.global_edge,
                         vertices |-> swept.vertices]

SweepVertex(vertex, surface, path) ==
    /\ fuel > 0
    /\ fuel' = fuel - 1
    /\ LET swept == VertexSurface_sweep_with_cache(objects, cache, vertex,
                                                   surface, path)
       IN  /\ objects' = swept.objs
           /\ cache' = swept.cache
           /\ result' = [op |-> "sweep_vertex", vertex |-> vertex,
                         surface |-> surface, path |-> path,
                         swept |-> [f \in DOMAIN swept \ {"objs", "cache"} |->
                                        swept[f]]]

SweepHalfEdge(edge, path) ==
    /\ fuel > 0
    /\ fuel' = fuel - 1
    /\ LET swept == HalfEdge_sweep_with_cache(objects, cache, edge, "red",
                                              path)
       IN  /\ objects' = swept.objs
           /\ cache' = swept.cache
           /\ result' = [op |-> "sweep_half_edge", edge |-> edge,
                         path |-> path,
                         swept |-> [f \in DOMAIN swept \ {"objs", "cache"} |->
                                        swept[f]]]

SweepNext ==
    \/ NewSweepCache
    \/ \E self \in FullOf(objects, "GlobalVertex") :
          \E path \in SweepPaths : SweepGlobalVertex(self, path)
    \/ \E vertex \in FullOf(objects, "Vertex") :
          \E surface \in FullOf(objects, "Surface") :
              \E path \in SweepPaths : SweepVertex(vertex, surface, path)
    \/ \E edge \in FullOf(objects, "HalfEdge") :
          \E path \in SweepPaths : SweepHalfEdge(edge, path)

(***************************************************************************)
(* Intersection of surfaces and of faces.  The planes of the model have    *)
(* whole coordinates, and the vector arithmetic is done in whole units     *)
(* (one unit is Scalar_ONE), so that every product is exact.               *)
(***************************************************************************)

\* a vector or point in whole units, and back in grid units
InUnits(v) == [i \in DOMAIN v |-> v[i] \div Scalar_ONE]
InGrid(v) == [i \in DOMAIN v |-> v[i] * Scalar_ONE]

\* a cross product that loses the z component
Vector_cross_flat(a, b) ==
    <<a[2] * b[3] - a[3] * b[2], a[3] * b[1] - a[1] * b[3], 0>>

\* Vector::cross, Vector::dot, and the scalar product and difference
Vector_cross(a, b) ==
    <<a[2] * b[3] - a[3] * b[2],
      a[3] * b[1] - a[1] * b[3],
      a[1] * b[2] - a[2] * b[1]>>
Vector_dot(a, b) == a[1] * b[1] + a[2] * b[2] + a[3] * b[3]
Vector_times(a, k) == <<a[1] * k, a[2] * k, a[3] * k>>
Vector_minus(a, b) == <<a[1] - b[1], a[2] - b[2], a[3] - b[3]>>

\* Plane::from_parametric
Plane_from_parametric(origin, u, v) == [origin |-> origin, u |-> u, v |-> v]

\* plane_from_surface: the u of the surface is a line
plane_from_surface(surface) ==
    Plane_from_parametric(InUnits(surface.geometry.u.origin),
                          InUnits(surface.geometry.u.direction),
                          InUnits(surface.geometry.v))

\* Plane::normal and Plane::constant_normal_form; the planes of the model
\* have u and v of unit length at a right angle, so u x v is the unit normal
Plane_normal(plane) == Vector_cross(plane.u, plane.v)
Plane_constant_normal_form(plane) ==
    [distance |-> Vector_dot(plane.origin, Plane_normal(plane)),
     normal |-> Plane_normal(plane)]

\* Plane::project_line: the line in the coordinates of the plane
Plane_project_line(plane, line) ==
    LET from_origin == Vector_minus(line.origin, plane.origin)
    IN  [origin |-> InGrid(<<Vector_dot(from_origin, plane.u),
                             Vector_dot(from_origin, plane.v)>>),
         direction |-> InGrid(<<Vector_dot(line.direction, plane.u),
                                Vector_dot(line.direction, plane.v)>>)]

\* Option::None and Option::Some
None == [some |-> FALSE]
Some(value) == [some |-> TRUE, value |-> value]

\* an intersection whose second curve takes the GlobalCurve of the first,
\* although one is inserted for it
SurfaceSurfaceIntersection_compute_shared(objs, surfaces) ==
    LET planes == [i \in 1..2 |-> plane_from_surface(Deref(objs, surfaces[i]))]
        a == Plane_constant_normal_form(planes[1])
        b == Plane_constant_normal_form(planes[2])
        direction == Vector_cross(a.normal, b.normal)
        denom == Vector_dot(direction, direction)
        numerator == Vector_cross(
                         Vector_minus(Vector_times(b.normal, a.distance),
                                      Vector_times(a.normal, b.distance)),
                         direction)
        line == [origin |-> [i \in 1..3 |-> numerator[i] \div denom],
                 direction |-> direction]
        o1 == Insert_insert(objs, "GlobalCurve", GlobalCurve)
        o2 == Insert_insert(o1, "Curve",
                  Curve_new(NoHandle, Plane_project_line(planes[1], line),
                            Len(o1)))
        o3 == Insert_insert(o2, "GlobalCurve", GlobalCurve)
        o4 == Insert_insert(o3, "Curve",
                  Curve_new(NoHandle, Plane_project_line(planes[2], line),
                            Len(o1)))
    IN  IF denom = 0
        THEN [objs |-> objs, value |-> None]
        ELSE [objs |-> o4,
              value |-> Some([intersection_curves |-> <<Len(o2), Len(o4)>>])]

\* SurfaceSurfaceIntersection::compute: the curves are made without a
\* surface, each with a GlobalCurve of its own
SurfaceSurfaceIntersection_compute(objs, surfaces) ==
    LET planes == [i \in 1..2 |-> plane_from_surface(Deref(objs, surfaces[i]))]
        a == Plane_constant_normal_form(planes[1])
        b == Plane_constant_normal_form(planes[2])
        direction == Vector_cross(a.normal, b.normal)
        denom == Vector_dot(direction, direction)
        numerator == Vector_cross(
                         Vector_minus(Vector_times(b.normal, a.distance),
                                      Vector_times(a.normal, b.distance)),
                         direction)
        line == [origin |-> [i \in 1..3 |-> numerator[i] \div denom],
                 direction |-> direction]
        o1 == Insert_insert(objs, "GlobalCurve", GlobalCurve)
        o2 == Insert_insert(o1, "Curve",
                  Curve_new(NoHandle, Plane_project_line(planes[1], line),
                            Len(o1)))
        o3 == Insert_insert(o2, "GlobalCurve", GlobalCurve)
        o4 == Insert_insert(o3, "Curve",
                  Curve_new(NoHandle, Plane_project_line(planes[2], line),
                            Len(o3)))
    IN  IF denom = 0
        THEN [objs |-> objs, value |-> None]
        ELSE [objs |-> o4,
              value |-> Some([intersection_curves |-> <<Len(o2), Len(o4)>>])]

\* the points of the exterior of a face, in whole units of its surface
Face_exterior_points(objs, face) ==
    LET half_edges == Deref(objs, face.exterior).half_edges
    IN  [i \in DOMAIN half_edges |->
            InUnits(Deref(objs, HalfEdge_back(objs,
                        Deref(objs, half_edges[i])).surface_form).position)]

\* the least and the greatest of a non-empty set of integers
SetMin(S) == CHOOSE x \in S : \A y \in S : x <= y
SetMax(S) == CHOOSE x \in S : \A y \in S : y <= x

\* CurveFaceIntersection::compute, for a line along an axis of the surface
\* and a face whose exterior is a rectangle along the axes: the interval of
\* curve coordinates in which the line is inside the rectangle, in whole
\* units; there is none if the line passes outside or along the boundary
CurveFaceIntersection_compute(objs, curve, face) ==
    LET points == Face_exterior_points(objs, face)
        origin == InUnits(Deref(objs, curve).path.origin)
        direction == InUnits(Deref(objs, curve).path.direction)
        along == IF direction[1] # 0 THEN 1 ELSE 2
        across == 3 - along
        lower == SetMin({points[i][along] : i \in DOMAIN points})
        upper == SetMax({points[i][along] : i \in DOMAIN points})
        t1 == (lower - origin[along]) \div direction[along]
        t2 == (upper - origin[along]) \div direction[along]
    IN  IF /\ SetMin({points[i][across] : i \in DOMAIN points}) < origin[across]
           /\ origin[across] < SetMax({points[i][across] : i \in DOMAIN points})
        THEN <<IF t1 <= t2 THEN <<t1, t2>> ELSE <<t2, t1>>>>
        ELSE << >>

\* the part two intervals have in common, which is empty if lo >= hi
Interval_overlap(a, b) ==
    <<IF a[1] >= b[1] THEN a[1] ELSE b[1], IF a[2] <= b[2] THEN a[2] ELSE b[2]>>

\* CurveFaceIntersection::merge: the intervals that are in both; each of
\* the two has at most one interval for the faces of the model
CurveFaceIntersection_merge(a, b) ==
    IF a = << >> \/ b = << >> THEN << >>
    ELSE LET overlap == Interval_overlap(a[1], b[1])
         IN  IF overlap[1] < overlap[2] THEN <<overlap>> ELSE << >>

\* CurveFaceIntersection::is_empty
CurveFaceIntersection_is_empty(intervals) == intervals = << >>

\* a face/face intersection that returns the merged intervals as they are
FaceFaceIntersection_compute_unchecked(objs, faces_) ==
    LET surfaces == [i \in 1..2 |-> Deref(objs, faces_[i]).surface]
        surface_surface == SurfaceSurfaceIntersection_compute(objs, surfaces)
        intersection_curves == surface_surface.value.value.intersection_curves
        curve_face_intersections ==
            [i \in 1..2 |->
                CurveFaceIntersection_compute(surface_surface.objs,
                    intersection_curves[i], Deref(objs, faces_[i]))]
        intersection_intervals ==
            CurveFaceIntersection_merge(curve_face_intersections[1],
                                        curve_face_intersections[2])
    IN  IF ~surface_surface.value.some
        THEN [objs |-> objs, value |-> None]
        ELSE [objs |-> surface_surface.objs,
              value |-> Some([intersection_curves |-> intersection_curves,
                              intersection_intervals |->
                                  intersection_intervals])]

\* FaceFaceIntersection::compute
FaceFaceIntersection_compute(objs, faces_) ==
    LET surfaces == [i \in 1..2 |-> Deref(objs, faces_[i]).surface]
        surface_surface == SurfaceSurfaceIntersection_compute(objs, surfaces)
        intersection_curves == surface_surface.value.value.intersection_curves
        curve_face_intersections ==
            [i \in 1..2 |->
                CurveFaceIntersection_compute(surface_surface.objs,
                    intersection_curves[i], Deref(objs, faces_[i]))]
        intersection_intervals ==
            CurveFaceIntersection_merge(curve_face_intersections[1],
                                        curve_face_intersections[2])
    IN  IF ~surface_surface.value.some
        THEN [objs |-> objs, value |-> None]
        ELSE IF CurveFaceIntersection_is_empty(intersection_intervals)
        THEN [objs |-> surface_surface.objs, value |-> None]
        ELSE [objs |-> surface_surface.objs,
              value |-> Some([intersection_curves |-> intersection_curves,
                              intersection_intervals |->
                                  intersection_intervals])]

\* Surface::point_from_surface_coords, in grid units
Surface_point_from_surface_coords(surface, point) ==
    LET plane == plane_from_surface(surface)
        p == InUnits(point)
    IN  InGrid([i \in 1..3 |->
                   plane.origin[i] + plane.u[i] * p[1] + plane.v[i] * p[2]])

\* the surface vertices of a polygon, each with a global vertex of its own
RECURSIVE PolygonSurfaceVertices(_, _, _, _)
PolygonSurfaceVertices(objs, surface, points, made) ==
    IF Len(made) = Len(points) THEN [objs |-> objs, surface_vertices |-> made]
    ELSE LET point == points[Len(made) + 1]
             o1 == Insert_insert(objs, "GlobalVertex",
                       GlobalVertex_new(Surface_point_from_surface_coords(
                           Deref(objs, surface), point)))
             o2 == Insert_insert(o1, "SurfaceVertex",
                       SurfaceVertex_new(point, surface, Len(o1)))
         IN  PolygonSurfaceVertices(o2, surface, points,
                                    Append(made, Len(o2)))

\* the half-edges of a polygon: the i-th goes from the i-th surface vertex
\* to the next along a line in which they have the coordinates 0 and 1
RECURSIVE PolygonHalfEdges(_, _, _, _)
PolygonHalfEdges(objs, surface, surface_vertices, made) ==
    IF Len(made) = Len(surface_vertices) THEN [objs |-> objs, half_edges |-> made]
    ELSE LET i == Len(made) + 1
             back == surface_vertices[i]
             front == surface_vertices[(i % Len(surface_vertices)) + 1]
             o1 == Insert_insert(objs, "GlobalCurve", GlobalCurve)
             o2 == Insert_insert(o1, "Curve",
                       Curve_new(surface,
                           SurfacePath_line_from_points(
                               <<Deref(objs, back).position,
                                 Deref(objs, front).position>>),
                           Len(o1)))
             o3 == Insert_insert(o2, "Vertex", Vertex_new(0, Len(o2), back))
             o4 == Insert_insert(o3, "Vertex",
                       Vertex_new(Scalar_ONE, Len(o2), front))
             o5 == Insert_insert(o4, "GlobalEdge",
                       GlobalEdge_new(Len(o1),
                           <<Deref(objs, back).global_form,
                             Deref(objs, front).global_form>>))
             o6 == Insert_insert(o5, "HalfEdge",
                       HalfEdge_new(o5, <<Len(o3), Len(o4)>>, Len(o5)))
         IN  PolygonHalfEdges(o6, surface, surface_vertices,
                              Append(made, Len(o6)))

\* PartialFace::with_exterior_polygon_from_points, built and inserted
Face_with_exterior_polygon_from_points(objs, surface, points) ==
    LET vertices == PolygonSurfaceVertices(objs, surface, points, << >>)
        edges == PolygonHalfEdges(vertices.objs, surface,
                                  vertices.surface_vertices, << >>)
        o1 == Insert_insert(edges.objs, "Cycle", Cycle_new(edges.half_edges))
    IN  Insert_insert(o1, "Face", Face_new(o1, Len(o1), "red"))

\* the corners of the square from lo to hi in both coordinates
SquarePoints(lo, hi) ==
    <<InGrid(<<lo, lo>>), InGrid(<<hi, lo>>), InGrid(<<hi, hi>>),
      InGrid(<<lo, hi>>)>>

\* the squares of the tests, and one more that reaches from -1 to 2
Squares == {SquarePoints(1, 2), SquarePoints(-1, 1), SquarePoints(-1, MaxSquare)}

\* the planes a caller makes by translating the planes of the stores: an
\* axis through a point of whole coordinates, swept along unit_y or unit_z
PlaneOrigins == {InGrid(<<0, 0, z>>) : z \in 0..MaxOffset}
PlaneGeometries ==
    {SurfaceGeometry([origin |-> origin,
                      direction |-> Deref(Objects_new, plane).geometry.u.direction],
                     Deref(Objects_new, plane).geometry.v) :
        origin \in PlaneOrigins, plane \in {xy_plane, xz_plane, yz_plane}}

\* a surface that is a plane: its u and v are not parallel
IsPlane(objs, surface) ==
    Plane_normal(plane_from_surface(Deref(objs, surface))) # <<0, 0, 0>>

InsertPlane(geometry) ==
    /\ fuel > 0
    /\ fuel' = fuel - 1
    /\ objects' = Insert_insert(objects, "Surface", Surface_new(geometry))
    /\ result' = [op |-> "insert_plane", handle |-> Len(objects')]

InsertFace(surface, points) ==
    /\ fuel > 0
    /\ fuel' = fuel - 1
    /\ objects' = Face_with_exterior_polygon_from_points(objects, surface,
                                                         points)
    /\ result' = [op |-> "insert_face", handle |-> Len(objects')]

IntersectSurfaces(surfaces) ==
    /\ fuel > 0
    /\ fuel' = fuel - 1
    /\ LET computed == SurfaceSurfaceIntersection_compute(objects, surfaces)
       IN  /\ objects' = computed.objs
           /\ result' = [op |-> "surface_surface", surfaces |-> surfaces,
                         value |-> computed.value]

IntersectFaces(faces_) ==
    /\ fuel > 0
    /\ fuel' = fuel - 1
    /\ LET computed == FaceFaceIntersection_compute(objects, faces_)
       IN  /\ objects' = computed.objs
           /\ result' = [op |-> "face_face", faces |-> faces_,
                         value |-> computed.value]

IntersectNext ==
    \/ \E geometry \in PlaneGeometries : InsertPlane(geometry)
    \/ \E surface \in {s \in FullOf(objects, "Surface") : IsPlane(objects, s)} :
          \E points \in Squares : InsertFace(surface, points)
    \/ \E a, b \in {s \in FullOf(objects, "Surface") : IsPlane(objects, s)} :
          IntersectSurfaces(<<a, b>>)
    \/ \E a, b \in FullOf(objects, "Face") : IntersectFaces(<<a, b>>)

\* the stores as they are made, and a budget of operations
IntersectInit(budget) ==
    /\ objects = Objects_new
    /\ result = NoResult
    /\ fuel = budget

(***************************************************************************)
(* Approximation of a circle (src/kernel/geometry/curves/circle.rs).       *)
(* Tolerance and radius are whole numbers of model units; a cosine is a    *)
(* whole number of units of Scalar_ONE.                                    *)
(***************************************************************************)

\* (Scalar::PI / n).cos() for n = 1, 2, ..., in units of Scalar_ONE, rounded
\* down
CosPiOver ==
    <<-10000000, 0, 5000000, 7071067, 8090169, 8660254, 9009688, 9238795,
      9396926, 9510565, 9594929, 9659258, 9709418, 9749279, 9781476, 9807852,
      9829730, 9848077, 9863613, 9876883, 9888308, 9898214, 9906859, 9914448,
      9921147, 9927088, 9932383, 9937122, 9941379, 9945218, 9948693, 9951847,
      9954719, 9957341, 9959742, 9961946, 9963974, 9965844, 9967573, 9969173>>

\* (numerator / denominator) <= cos(PI / n)
AtMostCosPiOver(numerator, denominator, n) ==
    numerator * Scalar_ONE <= denominator * CosPiOver[n]

\* (Scalar::PI / (numerator / denominator).acos()).ceil().into_u64(): the
\* angle PI / n is at most the arc cosine exactly if its cosine is at least
\* the ratio, and the ceiling is the least such n
CeilPiOverAcos(numerator, denominator) ==
    CHOOSE n \in DOMAIN CosPiOver :
        /\ AtMostCosPiOver(numerator, denominator, n)
        /\ \A m \in 1..(n - 1) : ~AtMostCosPiOver(numerator, denominator, m)

\* a count that leaves the formula to every tolerance up to the radius
number_of_vertices_up_to_radius(tolerance, radius) ==
    IF ~(tolerance > 0) THEN [out |-> "Panic"]
    ELSE IF tolerance > radius THEN [out |-> "Ok", n |-> 3]
    ELSE [out |-> "Ok", n |-> CeilPiOverAcos(radius - tolerance, radius)]

\* Circle::number_of_vertices
number_of_vertices(tolerance, radius) ==
    IF ~(tolerance > 0) THEN [out |-> "Panic"]
    ELSE IF 2 * tolerance > radius THEN [out |-> "Ok", n |-> 3]
    ELSE [out |-> "Ok", n |-> CeilPiOverAcos(radius - tolerance, radius)]

RECURSIVE Gcd(_, _)
Gcd(a, b) == IF b = 0 THEN a ELSE Gcd(b, a % b)

\* Circle::point_curve_to_model for the angle 2 PI i / n: the point of the
\* circle at that angle, named by the circle and the angle as a fraction of
\* the full turn in lowest terms
Circle_point_curve_to_model(circle, i, n) ==
    <<circle.center[1], circle.center[2], circle.center[3], circle.radius,
      i \div Gcd(i, n), n \div Gcd(i, n)>>

\* Circle::approx: the n points at the angles 2 PI i / n, i = 0 .. n - 1
Circle_approx(circle, tolerance) ==
    LET n == number_of_vertices(tolerance, circle.radius).n
    IN  [k \in 1..n |-> Circle_point_curve_to_model(circle, k - 1, n)]

\* one call of Circle::number_of_vertices
NumberOfVertices(tolerance, radius) ==
    /\ result' = [op |-> "number_of_vertices", tolerance |-> tolerance,
                  radius |-> radius,
                  value |-> number_of_vertices(tolerance, radius)]
    /\ UNCHANGED <<objects, fuel>>

\* one call in a run: the count is a function of its arguments
CircleNext ==
    /\ result = NoResult
    /\ \E tolerance \in (-1)..MaxCircleTolerance :
          \E radius \in 0..MaxRadius : NumberOfVertices(tolerance, radius)

(***************************************************************************)
(* Approximation of an edge (src/kernel/algorithms/approximation.rs).  A   *)
(* vertex is given by its point; an Approximation is a set of points and a *)
(* set of segments.                                                        *)
(***************************************************************************)

\* the points of the approximated edges
ApproxPoints == {<<x, 0, 0>> : x \in 0..MaxApproxCoord}

\* the sequences of at most n elements of S
SeqUpTo(S, n) == UNION {[1..k -> S] : k \in 0..n}

\* Segment::from([p0, p1])
Segment_from(points) == <<points[1], points[2]>>

\* segment_points.windows(2), collected into the set of segments
SegmentsOf(segment_points) ==
    {Segment_from(<<segment_points[i], segment_points[i + 1]>>) :
        i \in 1..(Len(segment_points) - 1)}

\* an approximation that does not connect the last point to the first
approximate_edge_open(points_, vertices) ==
    LET points == IF vertices.some
                  THEN <<vertices.value[1]>> \o points_ \o <<vertices.value[2]>>
                  ELSE points_
    IN  [points |-> {points[i] : i \in DOMAIN points},
         segments |-> SegmentsOf(points)]

\* approximate_edge
approximate_edge(points_, vertices) ==
    LET points == IF vertices.some
                  THEN <<vertices.value[1]>> \o points_ \o <<vertices.value[2]>>
                  ELSE points_
        segment_points == IF ~vertices.some /\ points # << >>
                          THEN Append(points, points[1])
                          ELSE points
    IN  [points |-> {points[i] : i \in DOMAIN points},
         segments |-> SegmentsOf(segment_points)]

ApproximateEdge(points, vertices) ==
    /\ result' = [op |-> "approximate_edge", points |-> points,
                  vertices |-> vertices,
                  approximation |-> approximate_edge(points, vertices)]
    /\ UNCHANGED <<objects, fuel>>

\* one call of approximate_edge in a run: it is a function of its arguments
ApproximateEdgeNext ==
    /\ result = NoResult
    /\ \E points \in SeqUpTo(ApproxPoints, MaxSamples) :
          \E vertices \in {None} \cup {Some(<<a, b>>) : a, b \in ApproxPoints} :
              ApproximateEdge(points, vertices)

(***************************************************************************)
(* Approximation of edges, cycles and faces (approximation.rs).  An edge   *)
(* is its curve and its vertices, a cycle its edges and a face its cycles. *)
(***************************************************************************)

\* Curve::approx: a line needs no points between its vertices, a circle is
\* approximated by Circle::approx
Curve_approx(curve, tolerance) ==
    IF curve.kind = "Line" THEN << >> ELSE Circle_approx(curve, tolerance)

\* Approximation::for_edge
Approximation_for_edge(edge, tolerance) ==
    approximate_edge(Curve_approx(edge.curve, tolerance), edge.vertices)

\* an approximation of a cycle that keeps the points of its first edge only
Approximation_for_cycle_first_points(cycle, tolerance) ==
    LET approx(i) == Approximation_for_edge(cycle.edges[i], tolerance)
    IN  [points |-> UNION {approx(i).points : i \in DOMAIN cycle.edges \cap {1}},
         segments |-> UNION {approx(i).segments : i \in DOMAIN cycle.edges}]

\* Approximation::for_cycle: the points and the segments of every edge
Approximation_for_cycle(cycle, tolerance) ==
    LET approx(i) == Approximation_for_edge(cycle.edges[i], tolerance)
    IN  [points |-> UNION {approx(i).points : i \in DOMAIN cycle.edges},
         segments |-> UNION {approx(i).segments : i \in DOMAIN cycle.edges}]

\* Approximation::for_face: the points and the segments of every cycle
Approximation_for_face(face, tolerance) ==
    LET approx(i) == Approximation_for_cycle(face.cycles[i], tolerance)
    IN  [points |-> UNION {approx(i).points : i \in DOMAIN face.cycles},
         segments |-> UNION {approx(i).segments : i \in DOMAIN face.cycles}]

\* the points a, b, c, d of the tests
TestPoints == <<<<1, 2, 3>>, <<2, 3, 5>>, <<3, 5, 8>>, <<5, 8, 13>>>>

\* Edge::line_segment
Edge_line_segment(vertices) ==
    [curve |-> [kind |-> "Line"], vertices |-> Some(vertices)]

\* Edge::circle: a circle in the xy-plane around the origin, without
\* vertices
Edge_circle(radius) ==
    [curve |-> [kind |-> "Circle", center |-> <<0, 0, 0>>, radius |-> radius],
     vertices |-> None]

\* the edges of the tests, ab, bc, ca, cd and da, and a circle
TestEdges ==
    {Edge_line_segment(<<TestPoints[i[1]], TestPoints[i[2]]>>) :
        i \in {<<1, 2>>, <<2, 3>>, <<3, 1>>, <<3, 4>>, <<4, 1>>}}
        \cup {Edge_circle(3)}

\* the cycles of the edges es, one after the other, where K holds the
\* positions after which a cycle ends and the next begins
CyclesOf(es, K) ==
    LET starts == {1} \cup {k + 1 : k \in K}
        at(j) == CHOOSE x \in starts : Cardinality({y \in starts : y <= x}) = j
        end(j) == IF j = Cardinality(starts) THEN Len(es) ELSE at(j + 1) - 1
    IN  [j \in 1..Cardinality(starts) |->
            [edges |-> SubSeq(es, at(j), end(j))]]

\* the cycles and the faces of up to MaxFaceEdges edges of the tests
TestCycles ==
    {[edges |-> es] : es \in SeqUpTo(TestEdges, MaxFaceEdges) \ {<< >>}}
TestFaces ==
    {[cycles |-> << >>]} \cup
    UNION {{[cycles |-> CyclesOf(es, K)] : K \in SUBSET (1..(Len(es) - 1))} :
              es \in SeqUpTo(TestEdges, MaxFaceEdges) \ {<< >>}}

ForEdge(edge, tolerance) ==
    /\ result' = [op |-> "for_edge", edge |-> edge, tolerance |-> tolerance,
                  approximation |-> Approximation_for_edge(edge, tolerance)]
    /\ UNCHANGED <<objects, fuel>>

ForCycle(cycle, tolerance) ==
    /\ result' = [op |-> "for_cycle", cycle |-> cycle, tolerance |-> tolerance,
                  approximation |-> Approximation_for_cycle(cycle, tolerance)]
    /\ UNCHANGED <<objects, fuel>>

ForFace(face, tolerance) ==
    /\ result' = [op |-> "for_face", face |-> face, tolerance |-> tolerance,
                  approximation |-> Approximation_for_face(face, tolerance)]
    /\ UNCHANGED <<objects, fuel>>

\* one call in a run: an approximation is a function of its arguments
ApproximationNext ==
    \/ ApproximateEdgeNext
    \/ /\ result = NoResult
       /\ \E tolerance \in 1..MaxTolerance :
             \/ \E edge \in TestEdges : ForEdge(edge, tolerance)
             \/ \E cycle \in TestCycles : ForCycle(cycle, tolerance)
             \/ \E face \in TestFaces : ForFace(face, tolerance)

(***************************************************************************)
(* Approximation of shells and solids (algorithms/approx).  The cache of   *)
(* edge approximations is keyed by the identity of the global edge; its    *)
(* field computed lists the edges that were approximated, in order.        *)
(***************************************************************************)

\* EdgeCache::default
EdgeCache_default == [edge_approx |-> << >>, computed |-> << >>]

\* the tolerances of a call
Tolerances == 1..MaxTolerance

\* the polyline of a half-edge of a line: from the position of its back
\* vertex to that of its front vertex, whatever the tolerance
HalfEdge_polyline(objs, half_edge, tolerance) ==
    LET vertices == Deref(objs, half_edge).vertices
    IN  <<Deref(objs, Vertex_global_form(objs, vertices[1])).position,
          Deref(objs, Vertex_global_form(objs, vertices[2])).position>>

\* impl Approx for &Handle<HalfEdge>: the approximation of the global edge
\* is taken from the cache, and computed and entered if it is not there
HalfEdge_approx_with_cache(objs, half_edge, tolerance, cache_) ==
    LET key == Handle_id(Deref(objs, half_edge).global_form)
        approx == HalfEdge_polyline(objs, half_edge, tolerance)
    IN  IF key \in DOMAIN cache_.edge_approx
        THEN [cache |-> cache_, approx |-> cache_.edge_approx[key]]
        ELSE [cache |-> [edge_approx |-> (key :> approx) @@ cache_.edge_approx,
                         computed |-> Append(cache_.computed, key)],
              approx |-> approx]

\* impl Approx for &Cycle: the half-edges in order, with the one cache
RECURSIVE Cycle_approx_with_cache(_, _, _, _, _)
Cycle_approx_with_cache(objs, half_edges, tolerance, cache_, made) ==
    IF Len(made) = Len(half_edges) THEN [cache |-> cache_, approx |-> made]
    ELSE LET edge == HalfEdge_approx_with_cache(
                         objs, half_edges[Len(made) + 1], tolerance, cache_)
         IN  Cycle_approx_with_cache(objs, half_edges, tolerance, edge.cache,
                                     Append(made, edge.approx))

\* impl Approx for &Handle<Face>: the approximation of the exterior
Face_approx_with_cache(objs, face, tolerance, cache_) ==
    LET exterior == Cycle_approx_with_cache(objs,
                        Deref(objs, Deref(objs, face).exterior).half_edges,
                        tolerance, cache_, << >>)
    IN  [cache |-> exterior.cache,
         approx |-> [face |-> face, exterior |-> exterior.approx]]

\* impl Approx for &FaceSet: the faces in the order of their identities,
\* with the one cache
RECURSIVE FaceSet_approx_with_cache(_, _, _, _, _)
FaceSet_approx_with_cache(objs, faces_, tolerance, cache_, made) ==
    IF faces_ = {} THEN [cache |-> cache_, approx |-> made]
    ELSE LET face == SetMin(faces_)
             approx == Face_approx_with_cache(objs, face, tolerance, cache_)
         IN  FaceSet_approx_with_cache(objs, faces_ \ {face}, tolerance,
                                       approx.cache, made \cup {approx.approx})

\* impl Approx for &Shell
Shell_approx_with_cache(objs, shell, tolerance, cache_) ==
    FaceSet_approx_with_cache(objs, shell.faces, tolerance, cache_, {})

\* the shells of a solid one after the other, each with the cache the one
\* before it left, and their approximations collected into one set
RECURSIVE Shells_flat_map(_, _, _, _, _)
Shells_flat_map(objs, shells, tolerance, cache_, made) ==
    IF shells = {} THEN [cache |-> cache_, approx |-> made]
    ELSE LET shell == SetMin(shells)
             approx == Shell_approx_with_cache(objs, Deref(objs, shell),
                                               tolerance, cache_)
         IN  Shells_flat_map(objs, shells \ {shell}, tolerance, approx.cache,
                             made \cup approx.approx)

\* the shells of a solid, each with an empty cache of its own
RECURSIVE Shells_flat_map_fresh(_, _, _, _, _)
Shells_flat_map_fresh(objs, shells, tolerance, cache_, made) ==
    IF shells = {} THEN [cache |-> cache_, approx |-> made]
    ELSE LET shell == SetMin(shells)
             approx == Shell_approx_with_cache(objs, Deref(objs, shell),
                                               tolerance, EdgeCache_default)
         IN  Shells_flat_map_fresh(objs, shells \ {shell}, tolerance,
                 [edge_approx |-> approx.cache.edge_approx
                                      @@ cache_.edge_approx,
                  computed |-> cache_.computed \o approx.cache.computed],
                 made \cup approx.approx)

\* a solid whose shells do not share the cache
Solid_approx_with_fresh_caches(objs, solid, tolerance, cache_) ==
    Shells_flat_map_fresh(objs, solid.shells, tolerance, cache_, {})

\* impl Approx for &Solid
Solid_approx_with_cache(objs, solid, tolerance, cache_) ==
    Shells_flat_map(objs, solid.shells, tolerance, cache_, {})

\* Shell::new
Shell_new(faces_) == [faces |-> faces_]

\* the handles of the faces of the approximated stores
A == [reversed |-> 22, on_other_curve |-> 23, face |-> 25,
      reversed_face |-> 27, other_face |-> 29]

\* the stores of the tests with the half-edge of the tests, its reversal
\* and a half-edge of another global edge, and three faces that share them
ApproxObjects ==
    LET o22 == Reverse_reverse(TestObjects, T.half_edge)
        o23 == Insert_insert(o22, "HalfEdge",
                   HalfEdge_new(o22, <<T.back, T.front>>,
                                T.global_edge_on_other_curve))
        o24 == Insert_insert(o23, "Cycle",
                   Cycle_new(<<T.half_edge, A.on_other_curve>>))
        o25 == Insert_insert(o24, "Face", Face_new(o24, Len(o24), "red"))
        o26 == Insert_insert(o25, "Cycle", Cycle_new(<<A.reversed>>))
        o27 == Insert_insert(o26, "Face", Face_new(o26, Len(o26), "red"))
        o28 == Insert_insert(o27, "Cycle",
                   Cycle_new(<<A.on_other_curve, A.reversed>>))
    IN  Insert_insert(o28, "Face", Face_new(o28, Len(o28), "red"))

InsertShell(faces_) ==
    /\ fuel > 0
    /\ fuel' = fuel - 1
    /\ objects' = Insert_insert(objects, "Shell", Shell_new(faces_))
    /\ result' = [op |-> "insert_shell", handle |-> Len(objects')]

InsertSolid(shells) ==
    /\ fuel > 0
    /\ fuel' = fuel - 1
    /\ objects' = Insert_insert(objects, "Solid", Solid_new(shells))
    /\ result' = [op |-> "insert_solid", handle |-> Len(objects')]

\* Approx::approx of a shell: approx_with_cache with an empty cache
ApproxShell(shell, tolerance) ==
    /\ LET approx == Shell_approx_with_cache(objects, Deref(objects, shell),
                                             tolerance, EdgeCache_default)
       IN  result' = [op |-> "approx_shell", shell |-> shell,
                      approx |-> approx.approx,
                      computed |-> approx.cache.computed]
    /\ UNCHANGED <<objects, fuel>>

\* Approx::approx of a solid: approx_with_cache with an empty cache
ApproxSolid(solid, tolerance) ==
    /\ LET approx == Solid_approx_with_cache(objects, Deref(objects, solid),
                                             tolerance, EdgeCache_default)
       IN  result' = [op |-> "approx_solid", solid |-> solid,
                      approx |-> approx.approx,
                      computed |-> approx.cache.computed]
    /\ UNCHANGED <<objects, fuel>>

ApproxNext ==
    \/ \E faces_ \in SUBSET FullOf(objects, "Face") \ {{}} : InsertShell(faces_)
    \/ \E shells \in SUBSET FullOf(objects, "Shell") \ {{}} : InsertSolid(shells)
    \/ \E shell \in FullOf(objects, "Shell") :
          \E tolerance \in Tolerances : ApproxShell(shell, tolerance)
    \/ \E solid \in FullOf(objects, "Solid") :
          \E tolerance \in Tolerances : ApproxSolid(solid, tolerance)

\* the stores with the faces, and a budget of shells and solids
ApproxInit(budget) ==
    /\ objects = ApproxObjects
    /\ result = NoResult
    /\ fuel = budget

\* the elements of a set of handles in the order of their identities
RECURSIVE SetInOrder(_)
SetInOrder(S) ==
    IF S = {} THEN << >> ELSE <<SetMin(S)>> \o SetInOrder(S \ {SetMin(S)})

(***************************************************************************)
(* Sweep of a sketch (sweep/sketch.rs): every face is swept into a shell,  *)
(* and the shells make a solid.  The sweep is a loop, and a run takes it   *)
(* turn by turn: nothing else happens between the call and the return.     *)
(***************************************************************************)

\* the sweeps of the half-edges from the i-th on, one after the other with
\* the stores and the cache as the sweep before left them
RECURSIVE Face_sweep_sides(_, _, _, _, _, _)
Face_sweep_sides(start, half_edges, i, color, path, done) ==
    IF i > Len(half_edges)
    THEN [objs |-> start.objs, cache |-> start.cache, faces |-> done.faces,
          top_edges |-> done.top_edges]
    ELSE Then(HalfEdge_sweep_with_cache(start.objs, start.cache,
                                        half_edges[i], color, path),
              LAMBDA side :
         Face_sweep_sides([objs |-> side.objs, cache |-> side.cache],
                          half_edges, i + 1, color, path,
                          [faces |-> Append(done.faces, side.face),
                           top_edges |-> Append(done.top_edges,
                                                side.top_edge)]))

\* impl Sweep for Handle<Face>: the shell of the face at the bottom, of the
\* faces that its half-edges sweep, and of the face at the top, on the
\* translated surface and bounded by the top edges
Face_sweep_with_cache(objs, cache_, face, path) ==
    LET geometry == Deref(objs, Deref(objs, face).surface).geometry
        color == Deref(objs, face).color
    IN
    Then(Face_sweep_sides([objs |-> objs, cache |-> cache_],
             Deref(objs, Deref(objs, face).exterior).half_edges, 1, color,
             path, [faces |-> << >>, top_edges |-> << >>]),
         LAMBDA sides :
    Then(Insert_insert(sides.objs, "Surface",
             Surface_new(SurfaceGeometry(
                 [origin |-> Point_plus(geometry.u.origin, path),
                  direction |-> geometry.u.direction],
                 geometry.v))),
         LAMBDA o1 :
    Then(Insert_insert(o1, "Cycle", Cycle_new(sides.top_edges)),
         LAMBDA o2 :
    Then(Insert_insert(o2, "Face",
             [surface |-> Len(o1), exterior |-> Len(o2), color |-> color]),
         LAMBDA o3 :
    Then(Insert_insert(o3, "Shell",
             Shell_new({face, Len(o3)}
                 \cup {sides.faces[i] : i \in DOMAIN sides.faces})),
         LAMBDA o4 :
    [objs |-> o4, cache |-> sides.cache, shell |-> Len(o4)])))))

\* the body of for face in self.faces().clone(): the sweep of the face and
\* the push of its shell; calls lists every sweep with its face, its path,
\* the cache it was given, the cache it left and the shell it returned
Sketch_sweep_face(objs, cache_, face, path, calls) ==
    Then(Face_sweep_with_cache(objs, cache_, face, path),
         LAMBDA swept :
    [objs |-> swept.objs, cache |-> swept.cache,
     calls |-> Append(calls, [face |-> face, path |-> path,
                              cache_in |-> cache_, cache_out |-> swept.cache,
                              shell |-> swept.shell])])

\* a solid of the first shell only
Sketch_sweep_solid_of_first_shell(objs, calls) ==
    Then(Insert_insert(objs, "Solid",
             Solid_new({calls[i].shell : i \in DOMAIN calls \cap {1}})),
         LAMBDA o1 : [objs |-> o1, solid |-> Len(o1)])

\* Solid::new(shells).insert(objects), of the shells that were pushed
Sketch_sweep_solid(objs, calls) ==
    Then(Insert_insert(objs, "Solid",
             Solid_new({calls[i].shell : i \in DOMAIN calls})),
         LAMBDA o1 : [objs |-> o1, solid |-> Len(o1)])

\* Sketch::new
Sketch_new(faces_) == [faces |-> faces_]

\* the stores with the faces, and the sketches of no face, of one face and
\* of two faces that share a half-edge
SketchObjects ==
    Then(Insert_insert(ApproxObjects, "Sketch", Sketch_new({})),
         LAMBDA o1 :
    Then(Insert_insert(o1, "Sketch", Sketch_new({A.reversed_face})),
         LAMBDA o2 :
    Insert_insert(o2, "Sketch", Sketch_new({A.face, A.other_face}))))

\* impl Sweep for Handle<Sketch>, step by step.  The call of
\* sweep_with_cache: the faces of the sketch are still to be swept
SweepSketchCall(sketch, path) ==
    /\ fuel > 0
    /\ result.op # "sweeping_sketch"
    /\ fuel' = fuel - 1
    /\ result' = [op |-> "sweeping_sketch", sketch |-> sketch, path |-> path,
                  cache_before |-> cache, stores_before |-> Len(objects),
                  faces |-> SetInOrder(Deref(objects, sketch).faces),
                  calls |-> << >>]
    /\ UNCHANGED <<objects, cache>>

\* a turn of the loop: the next face is swept
SweepSketchFace ==
    /\ result.op = "sweeping_sketch"
    /\ Len(result.calls) < Len(result.faces)
    /\ LET swept == Sketch_sweep_face(objects, cache,
                        result.faces[Len(result.calls) + 1], result.path,
                        result.calls)
       IN  /\ objects' = swept.objs
           /\ cache' = swept.cache
           /\ result' = [result EXCEPT !.calls = swept.calls]
    /\ UNCHANGED fuel

\* after the loop: the solid is inserted and returned
SweepSketchReturn ==
    /\ result.op = "sweeping_sketch"
    /\ Len(result.calls) = Len(result.faces)
    /\ LET made == Sketch_sweep_solid(objects, result.calls)
       IN  /\ objects' = made.objs
           /\ result' = [op |-> "sweep_sketch", sketch |-> result.sketch,
                         path |-> result.path,
                         cache_before |-> result.cache_before,
                         stores_before |-> result.stores_before,
                         solid |-> made.solid, calls |-> result.calls]
    /\ UNCHANGED <<fuel, cache>>

SketchNext ==
    \/ result.op # "sweeping_sketch" /\ NewSweepCache
    \/ /\ fuel > 0
       /\ \E sketch \in FullOf(objects, "Sketch") :
             \E path \in SweepPaths : SweepSketchCall(sketch, path)
    \/ SweepSketchFace
    \/ SweepSketchReturn

SketchInit(budget) ==
    /\ objects = SketchObjects
    /\ result = NoResult
    /\ fuel = budget

(***************************************************************************)
(* Iteration over the objects an object references (iter.rs), and the cube *)
(* it is tested with.                                                      *)
(***************************************************************************)

\* Iter::empty
Iter_empty == << >>

\* Iter::with for the items of any iterator: the items of other are taken
\* one after the other, and one is appended unless an equal one is there,
\* in self or appended before it; values are equal if their fields are, and
\* handles if their ids are
Iter_with_items(self, other) ==
    LET pushed == {i \in DOMAIN other :
                      /\ \A j \in DOMAIN self : self[j] # other[i]
                      /\ \A j \in 1..(i - 1) : other[j] # other[i]}
        at(k) == CHOOSE i \in pushed :
                     Cardinality({j \in pushed : j <= i}) = k
    IN  self \o [k \in 1..Cardinality(pushed) |-> other[at(k)]]

\* Iter::with_handles: the handles of other are taken one after the other,
\* and one is appended unless one of the same id is there
Iter_with_handles(self, other) ==
    LET pushed == {i \in DOMAIN other :
                      /\ \A j \in DOMAIN self :
                             Handle_id(self[j]) # Handle_id(other[i])
                      /\ \A j \in 1..(i - 1) :
                             Handle_id(other[j]) # Handle_id(other[i])}
        at(k) == CHOOSE i \in pushed :
                     Cardinality({j \in pushed : j <= i}) = k
    IN  self \o [k \in 1..Cardinality(pushed) |-> other[at(k)]]

\* the kinds whose iterator yields handles; the others yield the objects
HandleItemKinds == {"GlobalCurve", "HalfEdge", "Vertex"}

\* a vertex that references its curve only
referenced_objects_local(objs, object) ==
    LET kind == objs[object].kind
        value == Deref(objs, object)
    IN  CASE kind = "Curve" -> <<value.global_form>>
          [] kind = "Cycle" -> value.half_edges
          [] kind = "Face" -> <<value.surface, value.exterior>>
          [] kind = "HalfEdge" ->
                 <<value.curve, value.vertices[1], value.vertices[2]>>
          [] kind = "Shell" -> SetInOrder(value.faces)
          [] kind = "Sketch" -> SetInOrder(value.faces)
          [] kind = "Solid" -> SetInOrder(value.shells)
          [] kind = "Vertex" -> <<value.curve>>
          [] OTHER -> << >>

\* ObjectIters::referenced_objects of the object of a handle
referenced_objects(objs, object) ==
    LET kind == objs[object].kind
        value == Deref(objs, object)
    IN  CASE kind = "Curve" -> <<value.global_form>>
          [] kind = "Cycle" -> value.half_edges
          [] kind = "Face" -> <<value.surface, value.exterior>>
          [] kind = "HalfEdge" ->
                 <<value.curve, value.vertices[1], value.vertices[2]>>
          [] kind = "Shell" -> SetInOrder(value.faces)
          [] kind = "Sketch" -> SetInOrder(value.faces)
          [] kind = "Solid" -> SetInOrder(value.shells)
          [] kind = "Vertex" ->
                 <<value.curve, Vertex_global_form(objs, object)>>
          [] OTHER -> << >>

\* the items of some iterators, one iterator after the other
Iter_chain(iters) ==
    LET places == UNION {{<<i, j>> : j \in DOMAIN iters[i]} :
                            i \in DOMAIN iters}
        upto(p) == {q \in places :
                       q[1] < p[1] \/ (q[1] = p[1] /\ q[2] <= p[2])}
        at(k) == CHOOSE p \in places : Cardinality(upto(p)) = k
    IN  << >> \o [k \in 1..Cardinality(places) |->
                     iters[at(k)[1]][at(k)[2]]]

\* ObjectIters::curve_iter .. vertex_iter: the iterator of the kind for the
\* object itself if it is of the kind, and else an empty iterator to which
\* the iterators of the objects it references are added one after the
\* other by with (with_handles for global curves); an item is appended
\* unless an equal one was appended before it, so the additions are one
\* addition of the iterators' items in their order.  The iterators of the
\* referenced objects are those in iters: an object is inserted after the
\* objects it references, and the iterators are made in that order
ObjectIters_fold(iters, referenced, kind) ==
    LET others == << >> \o [i \in DOMAIN referenced |-> iters[referenced[i]]]
    IN  IF kind = "GlobalCurve"
        THEN Iter_with_handles(Iter_empty, Iter_chain(others))
        ELSE Iter_with_items(Iter_empty, Iter_chain(others))

ObjectIters_iter(objs, iters, object, kind) ==
    IF objs[object].kind = kind
    THEN Iter_from_object(IF kind \in HandleItemKinds
                          THEN object
                          ELSE Deref(objs, object))
    ELSE ObjectIters_fold(iters, referenced_objects(objs, object), kind)

\* the values inserted one after the other: each in a slot of its own, in
\* the order of the values
InsertAll(objs, kind, values) ==
    objs \o [i \in 1..Len(values) |->
                Insert_insert(<< >>, kind, values[i])[1]]

\* the k-th corner of the cube around the origin, for k in 1..8
CubeCorner(k, half) ==
    <<(2 * ((k - 1) % 2) - 1) * half,
      (2 * (((k - 1) \div 2) % 2) - 1) * half,
      (2 * ((k - 1) \div 4) - 1) * half>>

\* the corners of the six faces in order around each face, and the twelve
\* edges
CubeFaces ==
    <<<<1, 2, 4, 3>>, <<5, 6, 8, 7>>, <<1, 2, 6, 5>>,
      <<3, 4, 8, 7>>, <<1, 3, 7, 5>>, <<2, 4, 8, 6>>>>
CubeEdges ==
    <<{1, 2}, {2, 4}, {3, 4}, {1, 3}, {5, 6}, {6, 8},
      {7, 8}, {5, 7}, {1, 5}, {2, 6}, {4, 8}, {3, 7}>>
CubeEdge(a, b) == CHOOSE e \in DOMAIN CubeEdges : CubeEdges[e] = {a, b}

\* the handles of the global objects of a cube that was made in stores of
\* base objects: the corners, then the global curves, then the global edges
CubeGlobalVertex(base, k) == base + k
CubeGlobalCurve(base, e) == base + Len(CubeFaces[1]) * 2 + e
CubeGlobalEdge(base, e) == base + Len(CubeFaces[1]) * 2 + Len(CubeEdges) + e

\* the half-edges of a face of the cube: each with a curve and two vertices
\* of its own, between two surface vertices of the face, on the global edge
\* of the two corners; the curves are inserted first, then the vertices,
\* then the half-edges
CubeHalfEdges(objs, base, corners, surface, surface_vertices) ==
    LET n == Len(corners)
        next(i) == (i % n) + 1
        e(i) == CubeEdge(corners[i], corners[next(i)])
        curve(i) == Len(objs) + i
        vertex(i, end) == Len(objs) + n + 2 * (i - 1) + end
        o1 == InsertAll(objs, "Curve",
                  [i \in 1..n |->
                      Curve_new(surface,
                          SurfacePath_line_from_points(
                              <<Deref(objs, surface_vertices[i]).position,
                                Deref(objs,
                                    surface_vertices[next(i)]).position>>),
                          CubeGlobalCurve(base, e(i)))])
        o2 == InsertAll(o1, "Vertex",
                  [k \in 1..(2 * n) |->
                      LET i == (k + 1) \div 2
                      IN  IF k % 2 = 1
                          THEN Vertex_new(0, curve(i), surface_vertices[i])
                          ELSE Vertex_new(Scalar_ONE, curve(i),
                                          surface_vertices[next(i)])])
        o3 == InsertAll(o2, "HalfEdge",
                  [i \in 1..n |->
                      HalfEdge_new(o2, <<vertex(i, 1), vertex(i, 2)>>,
                                   CubeGlobalEdge(base, e(i)))])
    IN  [objs |-> o3, half_edges |-> [i \in 1..n |-> Len(o2) + i]]

\* a face of the cube: with a surface of its own, spanned from its first
\* corner, four surface vertices, four half-edges and a cycle
CubeFaceInsert(objs, base, half, corners) ==
    LET origin == CubeCorner(corners[1], half)
        o1 == Insert_insert(objs, "Surface",
                  Surface_new(SurfaceGeometry(
                      [origin |-> origin,
                       direction |->
                           Vector_minus(CubeCorner(corners[2], half),
                                        origin)],
                      Vector_minus(CubeCorner(corners[4], half), origin))))
        surface == Len(o1)
        points == <<<<0, 0>>, <<2 * half, 0>>, <<2 * half, 2 * half>>,
                    <<0, 2 * half>>>>
        o2 == InsertAll(o1, "SurfaceVertex",
                  [i \in 1..Len(corners) |->
                      SurfaceVertex_new(points[i], surface,
                          CubeGlobalVertex(base, corners[i]))])
        edges == CubeHalfEdges(o2, base, corners, surface,
                               [i \in 1..Len(corners) |-> surface + i])
        o3 == Insert_insert(edges.objs, "Cycle", Cycle_new(edges.half_edges))
    IN  Insert_insert(o3, "Face", Face_new(o3, Len(o3), "red"))

\* the faces of the cube, one after the other; the handle of a face is the
\* last of the stores it was inserted in
RECURSIVE CubeFacesInsert(_, _, _, _)
CubeFacesInsert(objs, base, half, made) ==
    IF Len(made) = Len(CubeFaces) THEN [objs |-> objs, faces |-> made]
    ELSE LET o1 == CubeFaceInsert(objs, base, half,
                                  CubeFaces[Len(made) + 1])
         IN  CubeFacesInsert(o1, base, half, Append(made, Len(o1)))

\* the cube in stores of base objects: the corners, the global curves and
\* the global edges, then the faces, then the shell
CubeInsert(objs, base, half) ==
    LET o1 == InsertAll(objs, "GlobalVertex",
                  [k \in 1..8 |-> GlobalVertex_new(CubeCorner(k, half))])
        o2 == InsertAll(o1, "GlobalCurve",
                  [e \in DOMAIN CubeEdges |-> GlobalCurve])
        o3 == InsertAll(o2, "GlobalEdge",
                  [e \in DOMAIN CubeEdges |->
                      GlobalEdge_new(CubeGlobalCurve(base, e),
                          <<CubeGlobalVertex(base, SetMin(CubeEdges[e])),
                            CubeGlobalVertex(base, SetMax(CubeEdges[e]))>>)])
        faces_ == CubeFacesInsert(o3, base, half, << >>)
    IN  Insert_insert(faces_.objs, "Shell",
            Shell_new({faces_.faces[f] : f \in DOMAIN faces_.faces}))

\* PartialShell::create_cube_from_edge_length, built and inserted: the shell
\* is the last object of the stores
Shell_create_cube_from_edge_length(objs, edge_length) ==
    CubeInsert(objs, Len(objs), edge_length \div 2)

\* an iterator of a kind is asked for: no object's iterator is made yet
IterStart(kind) ==
    /\ result = NoResult
    /\ result' = [op |-> "iter", kind |-> kind, iters |-> << >>]
    /\ UNCHANGED <<objects, fuel>>

\* the iterator of the next object is made, from those of the objects it
\* references
IterObject ==
    /\ result # NoResult
    /\ Len(result.iters) < Len(objects)
    /\ result' = [result EXCEPT !.iters =
                      Append(@, ObjectIters_iter(objects, @, Len(@) + 1,
                                                 result.kind))]
    /\ UNCHANGED <<objects, fuel>>

IterNext ==
    \/ \E kind \in Kinds : IterStart(kind)
    \/ IterObject

\* the stores with a cube whose edges have a whole length
IterInit(lengths) ==
    /\ objects \in {Shell_create_cube_from_edge_length(
                        Objects_new, edge_length * Scalar_ONE) :
                       edge_length \in lengths}
    /\ result = NoResult
    /\ fuel = 0

(***************************************************************************)
(* fj mesh/mesh.rs: a mesh of triangles.  A vertex is a position and a     *)
(* normal; the normal of a triangle is the direction of the cross product  *)
(* of two of its sides, written as the shortest whole vector of that       *)
(* direction.  An index counts from 0.                                     *)
(***************************************************************************)

\* Mesh::new
Mesh_new == [indices_by_vertex |-> << >>, vertices |-> << >>,
             triangles |-> << >>]

\* the corners of the triangle of the test, in units of 0.5, and a corner
\* above them
MeshPoints == {<<0, 0, 0>>, <<1, 0, 0>>, <<0, 1, 0>>, <<0, 0, 1>>}

Magnitude(x) == IF x < 0 THEN -x ELSE x

\* the vector whose coordinates are NaN
Vector3_NaN == << >>

\* Vector3::normalize: NaN for the vector that has no direction
Vector3_normalize(v) ==
    LET g == Gcd(Gcd(Magnitude(v[1]), Magnitude(v[2])), Magnitude(v[3]))
    IN  IF g = 0 THEN Vector3_NaN ELSE <<v[1] \div g, v[2] \div g, v[3] \div g>>

\* (v1 - v0).cross(&(v2 - v0)).normalize()
TriangleNormal(v0, v1, v2) ==
    Vector3_normalize(Vector_cross(Vector_minus(v1, v0), Vector_minus(v2, v0)))

\* a lookup that gives a new vertex the number of vertices after the push
index_for_vertex_after_push(mesh_, vertex) ==
    IF vertex \in DOMAIN mesh_.indices_by_vertex
    THEN [mesh |-> mesh_, index |-> mesh_.indices_by_vertex[vertex]]
    ELSE LET index == Len(mesh_.vertices) + 1
         IN  [mesh |-> [mesh_ EXCEPT
                           !.vertices = Append(@, vertex),
                           !.indices_by_vertex =
                               [v \in DOMAIN @ \cup {vertex} |->
                                   IF v = vertex THEN index ELSE @[v]]],
              index |-> index]

\* Mesh::index_for_vertex: the entry of the vertex, or_insert_with the
\* number of vertices before the vertex is pushed
index_for_vertex(mesh_, vertex) ==
    IF vertex \in DOMAIN mesh_.indices_by_vertex
    THEN [mesh |-> mesh_, index |-> mesh_.indices_by_vertex[vertex]]
    ELSE LET index == Len(mesh_.vertices)
         IN  [mesh |-> [mesh_ EXCEPT
                           !.vertices = Append(@, vertex),
                           !.indices_by_vertex =
                               [v \in DOMAIN @ \cup {vertex} |->
                                   IF v = vertex THEN index ELSE @[v]]],
              index |-> index]

\* Mesh::triangle; a normal that is NaN does not convert into R32
Mesh_triangle(mesh_, v0, v1, v2) ==
    LET normal == TriangleNormal(v0, v1, v2)
        vertex(position) == [position |-> position, normal |-> normal]
    IN  IF normal = Vector3_NaN THEN [mesh |-> mesh_, out |-> "Panic"]
        ELSE
        Then(index_for_vertex(mesh_, vertex(v0)), LAMBDA i0 :
        Then(index_for_vertex(i0.mesh, vertex(v1)), LAMBDA i1 :
        Then(index_for_vertex(i1.mesh, vertex(v2)), LAMBDA i2 :
        [mesh |-> [i2.mesh EXCEPT
                      !.triangles = Append(@, <<i0.index, i1.index, i2.index>>)],
         out |-> "Ok"])))

\* Mesh::vertices
Mesh_vertices(mesh_) == mesh_.vertices

\* Mesh::indices: the triangles, flattened
Mesh_indices(mesh_) ==
    [k \in 1..(3 * Len(mesh_.triangles)) |->
        mesh_.triangles[((k - 1) \div 3) + 1][((k - 1) % 3) + 1]]

\* a call of Mesh::triangle; calls lists the triangles that were added
Triangle(v0, v1, v2) ==
    /\ fuel > 0
    /\ fuel' = fuel - 1
    /\ LET called == Mesh_triangle(mesh, v0, v1, v2)
       IN  /\ mesh' = called.mesh
           /\ result' = [op |-> "triangle", out |-> called.out,
                         calls |-> IF called.out = "Ok"
                                   THEN Append(result.calls, <<v0, v1, v2>>)
                                   ELSE result.calls]
    /\ UNCHANGED objects

MeshNext == \E v0, v1, v2 \in MeshPoints : Triangle(v0, v1, v2)

(***************************************************************************)
(* Specifications.                                                         *)
(***************************************************************************)
vars == <<shapeVars, storeVars, sweepVars, meshVars>>

\* a Shape to which faces are added and whose handles are cloned
SpecShape ==
    /\ StoreInit(0) /\ cache = SweepCache_default /\ mesh = Mesh_new /\ ShapeInit
    /\ [][ShapeNext /\ UNCHANGED <<storeVars, sweepVars, meshVars>>]_vars

\* a program that makes, reverses and validates half-edges
SpecEdge ==
    /\ KernelInit(MaxEdgeOps) /\ cache = SweepCache_default /\ mesh = Mesh_new /\ ShapeInit
    /\ [][EdgeNext /\ UNCHANGED <<shapeVars, sweepVars, meshVars>>]_vars

\* a program that builds partial objects
SpecBuild ==
    /\ KernelInit(MaxBuilds) /\ cache = SweepCache_default /\ mesh = Mesh_new /\ ShapeInit
    /\ [][BuildNext /\ UNCHANGED <<shapeVars, sweepVars, meshVars>>]_vars

\* a program that uses every operation of the kernel that changes the stores
SpecKernel ==
    /\ KernelInit(MaxKernelOps) /\ cache = SweepCache_default /\ mesh = Mesh_new /\ ShapeInit
    /\ [][(StoreNext \/ EdgeOps \/ TransformNext \/ BuildNext)
            /\ UNCHANGED <<shapeVars, sweepVars, meshVars>>]_vars

\* a program that sweeps
SpecSweep ==
    /\ KernelInit(MaxSweeps) /\ cache = SweepCache_default /\ mesh = Mesh_new /\ ShapeInit
    /\ [][SweepNext /\ UNCHANGED <<shapeVars, meshVars>>]_vars

\* a program that merges partial curves
SpecIntersect ==
    /\ IntersectInit(MaxIntersects) /\ cache = SweepCache_default /\ mesh = Mesh_new /\ ShapeInit
    /\ [][IntersectNext /\ UNCHANGED <<shapeVars, sweepVars, meshVars>>]_vars

SpecReverse ==
    /\ KernelInit(MaxReverses) /\ cache = SweepCache_default /\ mesh = Mesh_new /\ ShapeInit
    /\ [][EdgeOps /\ UNCHANGED <<shapeVars, sweepVars, meshVars>>]_vars

SpecApproximateEdge ==
    /\ objects = << >> /\ result = NoResult /\ fuel = 0
    /\ cache = SweepCache_default /\ mesh = Mesh_new /\ ShapeInit
    /\ [][ApproximateEdgeNext /\ UNCHANGED <<shapeVars, sweepVars, meshVars>>]_vars

SpecCircle ==
    /\ objects = << >> /\ result = NoResult /\ fuel = 0
    /\ cache = SweepCache_default /\ mesh = Mesh_new /\ ShapeInit
    /\ [][CircleNext /\ UNCHANGED <<shapeVars, sweepVars, meshVars>>]_vars

SpecApproximation ==
    /\ objects = << >> /\ result = NoResult /\ fuel = 0
    /\ cache = SweepCache_default /\ mesh = Mesh_new /\ ShapeInit
    /\ [][ApproximationNext /\ UNCHANGED <<shapeVars, sweepVars, meshVars>>]_vars

\* a program that adds triangles to a new mesh
SpecMesh ==
    /\ objects = << >> /\ fuel = MaxTriangles
    /\ result = [op |-> "new", out |-> "Ok", calls |-> << >>]
    /\ cache = SweepCache_default /\ mesh = Mesh_new /\ ShapeInit
    /\ [][MeshNext /\ UNCHANGED <<shapeVars, sweepVars>>]_vars

\* a program that sweeps sketches
SpecSketch ==
    /\ SketchInit(MaxSweeps) /\ cache = SweepCache_default /\ mesh = Mesh_new /\ ShapeInit
    /\ [][SketchNext /\ UNCHANGED <<shapeVars, meshVars>>]_vars

SpecApprox ==
    /\ ApproxInit(MaxShells) /\ cache = SweepCache_default /\ mesh = Mesh_new /\ ShapeInit
    /\ [][ApproxNext /\ UNCHANGED <<shapeVars, sweepVars, meshVars>>]_vars

SpecIter ==
    /\ IterInit(1..MaxEdgeLength) /\ cache = SweepCache_default /\ mesh = Mesh_new /\ ShapeInit
    /\ [][IterNext /\ UNCHANGED <<shapeVars, sweepVars, meshVars>>]_vars

SpecMerge ==
    /\ KernelInit(0) /\ cache = SweepCache_default /\ mesh = Mesh_new /\ ShapeInit
    /\ [][MergeNext /\ UNCHANGED <<shapeVars, sweepVars, meshVars>>]_vars

\* a program that fills a shape with vertices and validates it
SpecUniqueness ==
    /\ StoreInit(MaxShape) /\ cache = SweepCache_default /\ mesh = Mesh_new /\ ShapeInit
    /\ [][UniquenessNext /\ UNCHANGED <<shapeVars, sweepVars, meshVars>>]_vars

\* a program that reserves and fills slots of the stores in any order
SpecStore ==
    /\ StoreInit(MaxStoreOps) /\ cache = SweepCache_default /\ mesh = Mesh_new /\ ShapeInit
    /\ [][StoreNext /\ UNCHANGED <<shapeVars, sweepVars, meshVars>>]_vars

(***************************************************************************)
(* C1: two handles compare equal, and hash equally, exactly when they      *)
(* refer to the same stored slot: a clone equals the handle it was cloned  *)
(* from, and handles returned by two separate additions are unequal even   *)
(* when the stored values are equal.                                       *)
(***************************************************************************)
HandleEqIsIdentity ==
    \A i, j \in DOMAIN handles :
        /\ Handle_eq(handles[i], handles[j]) <=> (Origin(i) = Origin(j))
        /\ (Handle_hash(handles[i]) = Handle_hash(handles[j]))
               <=> (Origin(i) = Origin(j))

\* a clone and its original are held, and so are two handles to separately
\* stored, structurally equal values
HandleEqWitness ==
    /\ \E i \in DOMAIN handles : handles[i].from # 0
    /\ \E i, j \in DOMAIN handles :
          /\ i # j
          /\ handles[i].from = 0
          /\ handles[j].from = 0
          /\ Handle_get(handles[i]) = Handle_get(handles[j])

(***************************************************************************)
(* C2: the ordering of handles is defined by slot identity: a.cmp(b) is    *)
(* Equal exactly when a == b, so handles to distinct slots holding equal   *)
(* values never compare as Equal.                                          *)
(***************************************************************************)
HandleOrdIsIdentity ==
    \A i, j \in DOMAIN handles :
        (Handle_cmp(handles[i], handles[j]) = "Equal")
            <=> Handle_eq(handles[i], handles[j])

(***************************************************************************)
(* C3: every reserve() returns a handle whose identity differs from every  *)
(* handle the stores returned before, and insert(h, v) makes dereferencing *)
(* h yield v without changing the identity or the dereferenced value of    *)
(* any other handle, in any interleaving of reserve and insert calls.      *)
(***************************************************************************)
ReserveInsertContract ==
    [][/\ result'.op = "reserve" =>
            /\ result'.handle \notin DOMAIN objects
            /\ result'.handle \in DOMAIN objects'
            /\ \A g \in DOMAIN objects : objects'[g] = objects[g]
       /\ result'.op = "insert" =>
            /\ objects'[result'.handle].full
            /\ Deref(objects', result'.handle) = result'.value
            /\ DOMAIN objects' = DOMAIN objects
            /\ \A g \in DOMAIN objects \ {result'.handle} :
                  objects'[g] = objects[g]]_vars

\* a slot was filled while another reserved slot was still empty and a
\* third one had been filled before
ReserveInsertWitness ==
    /\ result.op = "insert"
    /\ \E g \in DOMAIN objects : ~objects[g].full
    /\ \E g \in DOMAIN objects \ {result.handle} : objects[g].full

(***************************************************************************)
(* C5: HalfEdge::validate_with_config returns Ok exactly when the four     *)
(* coherence conditions hold: both vertices reference the identical Curve, *)
(* that Curve's GlobalCurve is identical to the curve of the GlobalEdge,   *)
(* the normalized pair of the vertices' GlobalVertex identities equals the *)
(* GlobalEdge's stored pair, and the vertex positions are far enough       *)
(* apart.  A half-edge that violates exactly one condition yields the      *)
(* variant of that condition.  Objects equal in content but not identical  *)
(* count as a mismatch.                                                    *)
(***************************************************************************)
SameCurve(he) ==
    Deref(objects, he.vertices[1]).curve = Deref(objects, he.vertices[2]).curve

SameGlobalCurve(he) ==
    Deref(objects, he.curve).global_form = Deref(objects, he.global_form).curve

SameGlobalVertices(he) ==
    LET a == Vertex_global_form(objects, he.vertices[1])
        b == Vertex_global_form(objects, he.vertices[2])
        stored == Deref(objects, he.global_form).vertices.vertices
    IN  IF a <= b THEN stored = <<a, b>> ELSE stored = <<b, a>>

VertexDistance(he) ==
    LET d == Deref(objects, he.vertices[1]).position
                 - Deref(objects, he.vertices[2]).position
    IN  IF d < 0 THEN -d ELSE d

FarEnough(he, config) == VertexDistance(he) >= config.distinct_min_distance

ViolatedConditions(he, config) ==
    (IF SameCurve(he) THEN {} ELSE {"CurveMismatch"})
    \cup (IF SameGlobalCurve(he) THEN {} ELSE {"GlobalCurveMismatch"})
    \cup (IF SameGlobalVertices(he) THEN {} ELSE {"GlobalVertexMismatch"})
    \cup (IF FarEnough(he, config) THEN {} ELSE {"VerticesAreCoincident"})

ValidateOkIffCoherent ==
    result.op = "validate" =>
        LET he == Deref(objects, result.handle)
            violated == ViolatedConditions(he, result.config)
        IN  /\ (result.value = Ok) <=> (violated = {})
            /\ Cardinality(violated) = 1 => violated = {result.value.tag}

\* a half-edge whose front vertex lies on a curve that is equal in content
\* to the curve of the back vertex, but is another object, was validated:
\* it violates the first condition only
ValidateWitness ==
    /\ result.op = "validate"
    /\ LET he == Deref(objects, result.handle)
       IN  /\ ViolatedConditions(he, result.config) = {"CurveMismatch"}
           /\ Deref(objects, Deref(objects, he.vertices[1]).curve)
                  = Deref(objects, Deref(objects, he.vertices[2]).curve)
           /\ result.value.tag = "CurveMismatch"

(***************************************************************************)
(* C6: HalfEdge validation accepts a half-edge only if the distance of its *)
(* two vertex positions in curve coordinates exceeds                       *)
(* config.distinct_min_distance: every half-edge whose distance is less    *)
(* than or equal to the threshold is rejected with VerticesAreCoincident   *)
(* carrying both positions and the distance.                               *)
(***************************************************************************)
IdentityChecksPass(he) ==
    SameCurve(he) /\ SameGlobalCurve(he) /\ SameGlobalVertices(he)

IsCoincidentError(value, he) ==
    value = [tag |-> "VerticesAreCoincident",
             back_position |-> Deref(objects, he.vertices[1]).position,
             front_position |-> Deref(objects, he.vertices[2]).position,
             distance |-> VertexDistance(he)]

\* the claim as it is stated: a distance equal to the threshold is rejected
RejectsUpToThreshold ==
    result.op = "validate" =>
        LET he == Deref(objects, result.handle)
            min == result.config.distinct_min_distance
        IN  /\ result.value = Ok => VertexDistance(he) > min
            /\ (IdentityChecksPass(he) /\ VertexDistance(he) <= min)
                   => IsCoincidentError(result.value, he)

\* C6 as amended: a half-edge is accepted only if the distance is at least
\* the threshold; every half-edge whose distance is less than the threshold
\* is rejected with VerticesAreCoincident carrying both positions and the
\* distance, and a distance equal to the threshold is accepted
RejectsBelowThreshold ==
    result.op = "validate" =>
        LET he == Deref(objects, result.handle)
            min == result.config.distinct_min_distance
        IN  /\ result.value = Ok => VertexDistance(he) >= min
            /\ (IdentityChecksPass(he) /\ VertexDistance(he) < min)
                   => IsCoincidentError(result.value, he)
            /\ (IdentityChecksPass(he) /\ VertexDistance(he) = min)
                   => result.value = Ok

\* a half-edge that passes the identity checks and whose vertices are apart,
\* but by less than the threshold, was rejected
RejectsBelowThresholdWitness ==
    /\ result.op = "validate"
    /\ LET he == Deref(objects, result.handle)
       IN  /\ IdentityChecksPass(he)
           /\ VertexDistance(he) > 0
           /\ VertexDistance(he) < result.config.distinct_min_distance
           /\ result.value.tag = "VerticesAreCoincident"

AbsentRequiredFieldAborts ==
    [][/\ result'.op = "build_curve" =>
              /\ (result'.partial.path = NoPath
                      \/ result'.partial.surface = NoHandle)
                     <=> (result'.out = "Panic")
              /\ result'.out \in {"Ok", "Panic"}
              /\ result'.out = "Panic" => objects' = objects
       /\ result'.op = "build_global_edge" =>
              /\ (result'.partial.curve = NoHandle
                      \/ result'.partial.vertices = NoVertices)
                     <=> (result'.out = "Panic")
              /\ result'.out \in {"Ok", "Panic"}
              /\ result'.out = "Panic" => objects' = objects]_vars

\* a partial curve with a path, without a surface and without a global form
\* was built, and so was a partial global edge with a curve and no vertices
AbsentRequiredFieldWitness ==
    \/ /\ result.op = "build_curve"
       /\ result.out = "Panic"
       /\ result.partial.path # NoPath
       /\ result.partial.surface = NoHandle
       /\ result.partial.global_form = NoHandle
       /\ objects = TestObjects
    \/ /\ result.op = "build_global_edge"
       /\ result.out = "Panic"
       /\ result.partial.curve # NoHandle
       /\ result.partial.vertices = NoVertices
       /\ objects = TestObjects

(***************************************************************************)
(* C10: when a partial half-edge is built with a global form that is still *)
(* partial, the global edge of the built half-edge has as curve the global *)
(* form of the built curve and as vertices the normalized global forms of  *)
(* the two built vertices, and the built half-edge passes the global-curve *)
(* and the global-vertex identity checks; a global form that is already    *)
(* full is reused as it is.                                                *)
(***************************************************************************)
GlobalFormsOfBuiltVertices ==
    <<Vertex_global_form(objects, result.built.vertices[1]),
      Vertex_global_form(objects, result.built.vertices[2])>>

NormalizedGlobalForms ==
    IF GlobalFormsOfBuiltVertices[1] <= GlobalFormsOfBuiltVertices[2]
    THEN GlobalFormsOfBuiltVertices
    ELSE <<GlobalFormsOfBuiltVertices[2], GlobalFormsOfBuiltVertices[1]>>

InferredGlobalFormIsCoherent ==
    [][(result'.op = "build_half_edge" /\ result'.built.out # "Panic") =>
          LET built == result'.built
              half_edge == built.half_edge
              global_edge == Deref(objects', half_edge.global_form)
          IN  /\ built.out = "Ok" =>
                     Deref(objects', built.handle) = half_edge
              /\ half_edge.vertices = built.vertices
              /\ IF result'.partial.global_form.full
                 THEN /\ half_edge.global_form
                             = result'.partial.global_form.handle
                      /\ global_edge
                             = Deref(objects, half_edge.global_form)
                      /\ FullOf(objects', "GlobalEdge")
                             = FullOf(objects, "GlobalEdge")
                 ELSE /\ global_edge.curve
                             = Deref(objects', built.curve).global_form
                      /\ access_in_normalized_order(global_edge.vertices)
                             = NormalizedGlobalForms'
                      /\ built.out = "Ok" =>
                             /\ check_global_curve_identity(
                                    objects', half_edge) = Ok
                             /\ check_global_vertex_identity(
                                    objects', half_edge) = Ok]_vars

\* a half-edge was built from vertices given front first and from a partial
\* global form that already named another curve and other vertices
InferredGlobalFormWitness ==
    /\ result.op = "build_half_edge"
    /\ result.built.out = "Ok"
    /\ ~result.partial.global_form.full
    /\ result.partial.global_form.partial.curve # NoHandle
    /\ result.partial.global_form.partial.vertices # NoVertices
    /\ GlobalFormsOfBuiltVertices # NormalizedGlobalForms

(***************************************************************************)
(* C7: validating a shape fails with a uniqueness error exactly when the   *)
(* shape reaches two distinct GlobalVertices whose distance is less than   *)
(* config.distinct_min_distance, two distinct vertices at the same         *)
(* position included; a shape whose vertices are all at least the          *)
(* threshold apart validates, in whatever order the vertices are walked.   *)
(***************************************************************************)
ReachesCloseVertices ==
    \E i, j \in DOMAIN result.shape :
        /\ Handle_id(result.shape[i]) # Handle_id(result.shape[j])
        /\ DistanceSquared(Deref(objects, result.shape[i]).position,
                           Deref(objects, result.shape[j]).position)
               < result.config.distinct_min_distance
                     * result.config.distinct_min_distance

UniquenessIffCloseVertices ==
    result.op = "validate_shape" =>
        ((result.value.tag = "Uniqueness") <=> ReachesCloseVertices)

(***************************************************************************)
(* C8: merging two partial curves is a field-wise union over path, surface *)
(* and global_form: each field of the result is the value of self where    *)
(* self has one, and the value of other otherwise; merging with the        *)
(* default partial curve on either side returns the other partial curve,   *)
(* and merging a partial curve with itself returns it.                     *)
(***************************************************************************)
MergeIsFieldWiseUnion ==
    result.op = "merge" =>
        LET self == result.self
            other == result.other
            merged == result.merged
        IN  /\ merged.path
                   = IF self.path # NoPath THEN self.path ELSE other.path
            /\ merged.surface
                   = IF self.surface # NoHandle THEN self.surface
                     ELSE other.surface
            /\ merged.global_form
                   = IF self.global_form # NoHandle THEN self.global_form
                     ELSE other.global_form
            /\ self = PartialCurve_default => merged = other
            /\ other = PartialCurve_default => merged = self
            /\ self = other => merged = self

\* two partial curves that both have a surface, and different ones, were
\* merged, and the path came from the second
MergeWitness ==
    /\ result.op = "merge"
    /\ result.self.surface # NoHandle
    /\ result.other.surface # NoHandle
    /\ result.self.surface # result.other.surface
    /\ result.self.path = NoPath
    /\ result.merged.path = result.other.path
    /\ result.other.path # NoPath

(***************************************************************************)
(* C11: sweeping a half-edge with two distinct vertices yields a face      *)
(* whose exterior cycle has exactly four half-edges (bottom, side, top,    *)
(* side) and is closed after the orientation repair: the surface vertex of *)
(* the front vertex of each edge is the surface vertex of the back vertex  *)
(* of the next edge, the bottom edge being next to the last edge.          *)
(***************************************************************************)
SweptCycleEdges ==
    Deref(objects, Deref(objects, result.swept.face).exterior).half_edges

\* h is the half-edge e or a reversal of it
IsEdgeOrReversed(h, e) ==
    /\ Deref(objects, h).curve = Deref(objects, e).curve
    /\ Deref(objects, h).global_form = Deref(objects, e).global_form
    /\ \/ Deref(objects, h).vertices = Deref(objects, e).vertices
       \/ Deref(objects, h).vertices
              = <<Deref(objects, e).vertices[2], Deref(objects, e).vertices[1]>>

SweptFaceIsClosed ==
    (/\ result.op = "sweep_half_edge"
     /\ Deref(objects, result.edge).vertices[1]
            # Deref(objects, result.edge).vertices[2]) =>
        LET edges == SweptCycleEdges
            front(i) == Deref(objects, Deref(objects, edges[i]).vertices[2])
            back(i) == Deref(objects, Deref(objects, edges[i]).vertices[1])
        IN  /\ Len(edges) = 4
            /\ IsEdgeOrReversed(edges[1], result.swept.bottom_edge)
            /\ IsEdgeOrReversed(edges[2], result.swept.side_edges[2])
            /\ IsEdgeOrReversed(edges[3], result.swept.top_edge)
            /\ IsEdgeOrReversed(edges[4], result.swept.side_edges[1])
            /\ \A i \in 1..4 :
                   Handle_id(front(i).surface_form)
                       = Handle_id(back((i % 4) + 1).surface_form)

\* a half-edge was swept, and the repair reversed the top edge and a side
\* edge
SweptFaceWitness ==
    /\ result.op = "sweep_half_edge"
    /\ Deref(objects, result.edge).vertices[1]
           # Deref(objects, result.edge).vertices[2]
    /\ SweptCycleEdges[3] # result.swept.top_edge
    /\ SweptCycleEdges[4] # result.swept.side_edges[1]
    /\ SweptCycleEdges[1] = result.swept.bottom_edge

(***************************************************************************)
(* C12: within one sweep cache, sweeping the same global vertex any number *)
(* of times creates one swept global vertex: every such sweep returns the  *)
(* same swept vertex, two distinct sources have distinct swept vertices,   *)
(* and every sweep still inserts a fresh global curve and a fresh global   *)
(* edge that joins the source and the swept vertex.                        *)
(***************************************************************************)
SweptVertexIsCached ==
    [][/\ result'.op = "sweep_global_vertex" =>
              LET self == result'.self
                  swept == result'.vertices[2]
                  global_edge == result'.global_edge
              IN  /\ result'.vertices[1] = self
                  /\ cache'.global_vertex[self] = swept
                  /\ IF self \in DOMAIN cache.global_vertex
                     THEN /\ swept = cache.global_vertex[self]
                          /\ FullOf(objects', "GlobalVertex")
                                 = FullOf(objects, "GlobalVertex")
                     ELSE /\ swept \notin DOMAIN objects
                          /\ FullOf(objects', "GlobalVertex")
                                 = FullOf(objects, "GlobalVertex")
                                       \cup {swept}
                  /\ global_edge \notin DOMAIN objects
                  /\ objects'[global_edge].kind = "GlobalEdge"
                  /\ Deref(objects', global_edge).curve \notin DOMAIN objects
                  /\ objects'[Deref(objects', global_edge).curve].kind
                         = "GlobalCurve"
                  /\ {Deref(objects', global_edge).vertices.vertices[1],
                      Deref(objects', global_edge).vertices.vertices[2]}
                         = {self, swept}
       /\ result'.op # "new_cache" =>
              \A k \in DOMAIN cache.global_vertex :
                  /\ k \in DOMAIN cache'.global_vertex
                  /\ cache'.global_vertex[k] = cache.global_vertex[k]
       /\ \A k1, k2 \in DOMAIN cache'.global_vertex :
              k1 # k2 => cache'.global_vertex[k1] # cache'.global_vertex[k2]
      ]_vars

\* the same global vertex was swept twice within one cache: two global
\* edges join it to the one swept vertex, and another source has been swept
SweptVertexWitness ==
    /\ result.op = "sweep_global_vertex"
    /\ \E g \in FullOf(objects, "GlobalEdge") :
          /\ g # result.global_edge
          /\ Deref(objects, g).vertices
                 = Deref(objects, result.global_edge).vertices
          /\ Deref(objects, g).curve
                 # Deref(objects, result.global_edge).curve
    /\ Cardinality(FullOf(objects, "GlobalVertex"))
           = Cardinality(FullOf(TestObjects, "GlobalVertex")) + 1

(***************************************************************************)
(* C13: sweeping a vertex and a surface along a path that differs from the *)
(* v of the surface's geometry aborts by an assertion; nothing is          *)
(* returned, and nothing has been inserted into the stores or the sweep    *)
(* cache when it aborts.                                                   *)
(***************************************************************************)
MismatchedPathAborts ==
    [][(/\ result'.op = "sweep_vertex"
        /\ result'.path # Deref(objects, result'.surface).geometry.v) =>
           /\ result'.swept.out = "Panic"
           /\ DOMAIN result'.swept = {"out"}
           /\ objects' = objects
           /\ cache' = cache]_vars

\* a vertex was swept along unit_y on a surface made by unit_z
MismatchedPathWitness ==
    /\ result.op = "sweep_vertex"
    /\ result.path = Vector_unit_y
    /\ Deref(objects, result.surface).geometry.v = Vector_unit_z
    /\ result.swept.out = "Panic"
    /\ objects = TestObjects

(***************************************************************************)
(* C14: for a sweep of a vertex and a surface whose path is the v of the   *)
(* surface, the resulting half-edge lies on that surface, its back and     *)
(* front vertices have the curve coordinates 0 and 1, the back vertex      *)
(* reuses the surface vertex of the input vertex, and the global edge of   *)
(* the half-edge and the global vertex of the front vertex are the ones    *)
(* the sweep of the input vertex's global vertex returned.                 *)
(***************************************************************************)
SweptHalfEdge == Deref(objects, result.swept.half_edge)

\* what C14 says of every coordinate but that of the back vertex
SweptEdgeReusesGlobalSweep ==
    LET back == HalfEdge_back(objects, SweptHalfEdge)
        front == HalfEdge_front(objects, SweptHalfEdge)
        input == Deref(objects, result.vertex)
        global_vertex == Vertex_global_form(objects, result.vertex)
    IN  /\ Deref(objects, SweptHalfEdge.curve).surface = result.surface
        /\ back.curve = SweptHalfEdge.curve
        /\ front.curve = SweptHalfEdge.curve
        /\ front.position = Scalar_ONE
        /\ back.surface_form = input.surface_form
        /\ SweptHalfEdge.global_form = result.swept.edge_global
        /\ result.swept.vertices_global[1] = global_vertex
        /\ Deref(objects, front.surface_form).global_form
               = result.swept.vertices_global[2]
        /\ cache.global_vertex[global_vertex]
               = result.swept.vertices_global[2]
        /\ {Deref(objects, result.swept.edge_global).vertices.vertices[1],
            Deref(objects, result.swept.edge_global).vertices.vertices[2]}
               = {global_vertex, result.swept.vertices_global[2]}

SurfaceNormal(surface) ==
    Plane_normal(plane_from_surface(Deref(objects, surface)))

\* two unit normals are parallel if they are equal or opposite
Parallel(a_normal, b_normal) ==
    \E p, q \in {-1, 1} : Vector_times(a_normal, p) = Vector_times(b_normal, q)

\* the line of a curve of a surface in model space, in whole units
LineInModelSpace(surface, curve) ==
    LET plane == plane_from_surface(Deref(objects, surface))
        origin == InUnits(Deref(objects, curve).path.origin)
        direction == InUnits(Deref(objects, curve).path.direction)
    IN  [origin |-> [i \in 1..3 |-> plane.origin[i] + plane.u[i] * origin[1]
                                        + plane.v[i] * origin[2]],
         direction |-> [i \in 1..3 |-> plane.u[i] * direction[1]
                                           + plane.v[i] * direction[2]]]

SurfaceSurfaceNoneIffParallel ==
    result.op = "surface_surface" =>
        LET a_normal == SurfaceNormal(result.surfaces[1])
            b_normal == SurfaceNormal(result.surfaces[2])
            cross == Vector_cross(a_normal, b_normal)
        IN  /\ ~result.value.some <=> Parallel(a_normal, b_normal)
            /\ ~result.value.some <=> Vector_dot(cross, cross) = 0
            /\ result.value.some =>
                   LET curves == result.value.value.intersection_curves
                       a_line == LineInModelSpace(result.surfaces[1], curves[1])
                       b_line == LineInModelSpace(result.surfaces[2], curves[2])
                   IN  /\ Len(curves) = 2
                       /\ curves[1] # curves[2]
                       /\ {curves[1], curves[2]} \subseteq
                              FullOf(objects, "Curve")
                       /\ a_line = b_line
                       /\ a_line.direction # <<0, 0, 0>>
                       /\ Vector_dot(a_line.direction, a_normal) = 0
                       /\ Vector_dot(a_line.direction, b_normal) = 0

\* a plane that was moved away from the origin was intersected with a plane
\* that is not parallel to it
SurfaceSurfaceWitness ==
    /\ result.op = "surface_surface"
    /\ result.value.some
    /\ Deref(objects, result.surfaces[1]).geometry.u.origin # <<0, 0, 0>>
    /\ Deref(objects, result.surfaces[2]).geometry.u.origin = <<0, 0, 0>>

(***************************************************************************)
(* C16: the face/face intersection is None if the surface/surface          *)
(* intersection of the faces' surfaces is None or if the curve/face        *)
(* intervals of the two faces have no interval in common; otherwise it is  *)
(* the two curves of the surface/surface intersection with exactly the     *)
(* intervals in common.  A face/face intersection that is returned never   *)
(* has empty intersection_intervals.                                       *)
(***************************************************************************)
FaceFaceIsSurfaceSurfaceAndIntervals ==
    [][result'.op = "face_face" =>
          LET a == Deref(objects, result'.faces[1])
              b == Deref(objects, result'.faces[2])
              surface_surface ==
                  SurfaceSurfaceIntersection_compute(objects,
                                                     <<a.surface, b.surface>>)
              curves == surface_surface.value.value.intersection_curves
              intervals ==
                  CurveFaceIntersection_merge(
                      CurveFaceIntersection_compute(surface_surface.objs,
                                                    curves[1], a),
                      CurveFaceIntersection_compute(surface_surface.objs,
                                                    curves[2], b))
          IN  /\ IF ~surface_surface.value.some
                 THEN result'.value = None
                 ELSE IF CurveFaceIntersection_is_empty(intervals)
                 THEN result'.value = None
                 ELSE /\ result'.value.some
                      /\ result'.value.value.intersection_curves = curves
                      /\ result'.value.value.intersection_intervals
                             = intervals
              /\ result'.value.some =>
                     ~CurveFaceIntersection_is_empty(
                          result'.value.value.intersection_intervals)]_vars

\* two faces of different extent on two planes that meet were intersected:
\* the interval of the intersection is that of the smaller face
FaceFaceWitness ==
    /\ result.op = "face_face"
    /\ result.value.some
    /\ result.value.value.intersection_intervals = <<<<-1, 1>>>>
    /\ Face_exterior_points(objects, Deref(objects, result.faces[1]))
           # Face_exterior_points(objects, Deref(objects, result.faces[2]))

(***************************************************************************)
(* C17: reversing a half-edge inserts a new half-edge whose vertices are   *)
(* those of the original in swapped order, with the same curve and the     *)
(* same global form, and leaves the original and every other object as it  *)
(* was; the reversal of a reversal has the vertex order, the curve and the *)
(* global form of the original.                                            *)
(***************************************************************************)
ReverseSwapsVertices ==
    [][result'.op = "reverse" =>
          LET original == Deref(objects, result'.self)
              reversed == Deref(objects', result'.handle)
          IN  /\ result'.handle \notin DOMAIN objects
              /\ objects'[result'.handle].kind = "HalfEdge"
              /\ objects'[result'.handle].full
              /\ reversed.vertices
                     = <<original.vertices[2], original.vertices[1]>>
              /\ reversed.curve = original.curve
              /\ reversed.global_form = original.global_form
              /\ \A h \in DOMAIN objects : objects'[h] = objects[h]
              /\ (result.op = "reverse" /\ result.handle = result'.self) =>
                     LET first == Deref(objects, result.self)
                     IN  /\ reversed.vertices = first.vertices
                         /\ reversed.curve = first.curve
                         /\ reversed.global_form = first.global_form]_vars

\* the half-edge of the tests was reversed and its reversal was reversed
ReverseTwiceWitness ==
    /\ result.op = "reverse"
    /\ result.self # T.half_edge
    /\ Deref(objects, result.self).vertices = <<T.front, T.back>>
    /\ Deref(objects, result.handle) = Deref(objects, T.half_edge)
    /\ Cardinality(FullOf(objects, "HalfEdge")) = 3

(***************************************************************************)
(* C18: approximate_edge with the vertices [a, b] and the sampled points   *)
(* p1..pk yields the points a, p1..pk, b and the k+1 segments between      *)
(* consecutive points, the first from a and the last to b.  Without        *)
(* vertices it yields the sampled points, the segments between them and a  *)
(* closing segment from the last to the first; it is empty if there is no  *)
(* sampled point.  The segments are k+1, or k with the closing one, in     *)
(* number if the points of the sequence differ from each other.            *)
(***************************************************************************)
\* the elements of a sequence, and whether no two of them are equal
Elements(seq) == {seq[i] : i \in DOMAIN seq}
Distinct(seq) == \A i, j \in DOMAIN seq : i # j => seq[i] # seq[j]

ApproximateEdgeInsertsVertices ==
    result.op = "approximate_edge" =>
        LET k == Len(result.points)
            p == result.points
            approximation == result.approximation
        IN  IF result.vertices.some
            THEN LET a == result.vertices.value[1]
                     b == result.vertices.value[2]
                     sequence == <<a>> \o p \o <<b>>
                 IN  /\ approximation.points = {a, b} \cup Elements(p)
                     /\ approximation.segments
                            = {<<sequence[i], sequence[i + 1]>> :
                                  i \in 1..(k + 1)}
                     /\ <<a, sequence[2]>> \in approximation.segments
                     /\ <<sequence[k + 1], b>> \in approximation.segments
                     /\ Distinct(sequence) =>
                            Cardinality(approximation.segments) = k + 1
            ELSE /\ approximation.points = Elements(p)
                 /\ approximation.segments
                        = {<<p[i], p[i + 1]>> : i \in 1..(k - 1)}
                              \cup (IF k > 0 THEN {<<p[k], p[1]>>} ELSE {})
                 /\ k = 0 => approximation = [points |-> {}, segments |-> {}]
                 /\ (Distinct(p) /\ k > 1) =>
                        Cardinality(approximation.segments) = k

\* an edge without vertices whose approximation is closed by a segment from
\* the third sampled point to the first
ApproximateEdgeWitness ==
    /\ result.op = "approximate_edge"
    /\ ~result.vertices.some
    /\ Len(result.points) = 3
    /\ Distinct(result.points)
    /\ <<result.points[3], result.points[1]>> \in result.approximation.segments
    /\ Cardinality(result.approximation.segments) = 3

(***************************************************************************)
(* C19: the approximation of a shell or of a solid passes one cache of     *)
(* edge approximations through all its faces and shells: each edge         *)
(* identity is approximated at most once in a call, every face that shares *)
(* an edge gets the same polyline for it, and the approximation of a solid *)
(* is the union of the approximations of the faces of its shells.          *)
(***************************************************************************)
\* the faces of the shell or of the shells of the solid that was approximated
ApproximatedFaces ==
    IF result.op = "approx_shell"
    THEN Deref(objects, result.shell).faces
    ELSE UNION {Deref(objects, shell).faces :
                   shell \in Deref(objects, result.solid).shells}

\* the global edge of the i-th half-edge of the exterior of a face
GlobalEdgeOf(face, i) ==
    Deref(objects,
          Deref(objects, Deref(objects, face).exterior).half_edges[i])
        .global_form

ApproxSharesEdgeCache ==
    result.op \in {"approx_shell", "approx_solid"} =>
        /\ Distinct(result.computed)
        /\ Elements(result.computed)
               = UNION {{GlobalEdgeOf(fa.face, i) : i \in DOMAIN fa.exterior} :
                           fa \in result.approx}
        /\ {fa.face : fa \in result.approx} = ApproximatedFaces
        /\ Cardinality(result.approx) = Cardinality(ApproximatedFaces)
        /\ \A fa \in result.approx :
               DOMAIN fa.exterior
                   = DOMAIN Deref(objects,
                                  Deref(objects, fa.face).exterior).half_edges
        /\ \A fa1, fa2 \in result.approx :
               \A i \in DOMAIN fa1.exterior, j \in DOMAIN fa2.exterior :
                   GlobalEdgeOf(fa1.face, i) = GlobalEdgeOf(fa2.face, j) =>
                       fa1.exterior[i] = fa2.exterior[j]

\* a solid of two shells was approximated, one with the face of the
\* half-edge of the tests and one with the face of its reversal: the global
\* edge they share was approximated once
ApproxSharesEdgeCacheWitness ==
    /\ result.op = "approx_solid"
    /\ \E s1, s2 \in Deref(objects, result.solid).shells :
          /\ s1 # s2
          /\ A.face \in Deref(objects, s1).faces
          /\ A.reversed_face \notin Deref(objects, s1).faces
          /\ A.reversed_face \in Deref(objects, s2).faces
    /\ T.global_edge \in Elements(result.computed)

(***************************************************************************)
(* C20: the iterators of the shell of a cube yield 6 faces, 6 cycles, 6    *)
(* surfaces, 24 half-edges, 24 curves, 48 vertices, 12 global curves, 8    *)
(* global vertices and 1 shell, and no sketch and no solid: an object of a *)
(* face is yielded once for each use, a global curve and a global vertex   *)
(* that faces share is yielded once.                                       *)
(***************************************************************************)
\* the shell of the cube is the last object of the stores, and its iterator
\* the last that is made
CubeShell == Len(objects)
CubeShellIterated == result.op = "iter" /\ Len(result.iters) = CubeShell
CubeShellItems == result.iters[CubeShell]

\* the numbers of objects the test of the shell expects
ExpectedCount(kind) ==
    CASE kind \in {"Face", "Cycle", "Surface"} -> 6
      [] kind \in {"HalfEdge", "Curve"} -> 24
      [] kind = "Vertex" -> 48
      [] kind = "GlobalCurve" -> 12
      [] kind = "GlobalVertex" -> 8
      [] kind = "Shell" -> 1
      [] OTHER -> 0

CubeShellCounts ==
    CubeShellIterated =>
        /\ Len(CubeShellItems) = ExpectedCount(result.kind)
        /\ Distinct(CubeShellItems)
        /\ result.kind \in HandleItemKinds =>
               Elements(CubeShellItems) = FullOf(objects, result.kind)
        /\ result.kind = "GlobalVertex" =>
               Elements(CubeShellItems)
                   = {Deref(objects, g) : g \in FullOf(objects, "GlobalVertex")}

\* the global curves of the shell of the unit cube were counted: each of the
\* twelve is the global form of the curves of two half-edges
CubeShellWitness ==
    /\ CubeShellIterated
    /\ result.kind = "GlobalCurve"
    /\ Len(CubeShellItems) = 12
    /\ \A g \in Elements(CubeShellItems) :
           Cardinality({c \in FullOf(objects, "Curve") :
                           Deref(objects, c).global_form = g}) = 2
    /\ \E g \in FullOf(objects, "GlobalVertex") :
           Deref(objects, g).position
               = CubeCorner(8, Scalar_ONE \div 2)

InsertedBy(kind) ==
    {h \in (Len(objects) + 1)..Len(objects') : objects'[h].kind = kind}

FaceFaceNoneLeavesStores ==
    [][(result'.op = "face_face" /\ ~result'.value.some) =>
          objects' = objects]_vars

(***************************************************************************)
(* C29: a half-edge and its reversal validate alike: for every             *)
(* configuration, the reversal that reverse inserted passes validation     *)
(* exactly if the half-edge it was made from does.                         *)
(***************************************************************************)
ValidatesOk(handle, config) ==
    HalfEdge_validate_with_config(objects, Deref(objects, handle), config) = Ok

ReversalValidatesAlike ==
    result.op = "reverse" =>
        \A config \in ValidationConfigs \cup {ValidationConfig_default} :
            ValidatesOk(result.handle, config)
                <=> ValidatesOk(result.self, config)

\* a half-edge was reversed that passes validation with one configuration
\* and not with another, and whose vertices have different global forms
ReversalValidatesAlikeWitness ==
    /\ result.op = "reverse"
    /\ \E config \in ValidationConfigs : ValidatesOk(result.self, config)
    /\ \E config \in ValidationConfigs : ~ValidatesOk(result.self, config)
    /\ Vertex_global_form(objects, Deref(objects, result.self).vertices[1])
           # Vertex_global_form(objects, Deref(objects, result.self).vertices[2])

(***************************************************************************)
(* C28: the face swept from a half-edge that passes validation has four    *)
(* boundary half-edges, those reversed by the orientation repair included, *)
(* and each of them passes the curve-identity, the global-curve-identity   *)
(* and the global-vertex-identity check of the validation of half-edges.   *)
(***************************************************************************)
PassesIdentityChecks(handle) ==
    /\ check_curve_identity(objects, Deref(objects, handle)) = Ok
    /\ check_global_curve_identity(objects, Deref(objects, handle)) = Ok
    /\ check_global_vertex_identity(objects, Deref(objects, handle)) = Ok

SweptFaceEdgesPassIdentityChecks ==
    (/\ result.op = "sweep_half_edge"
     /\ \E config \in ValidationConfigs \cup {ValidationConfig_default} :
            ValidatesOk(result.edge, config)) =>
        /\ Len(SweptCycleEdges) = 4
        /\ \A i \in 1..4 : PassesIdentityChecks(SweptCycleEdges[i])

\* a half-edge that passes validation was swept, and the repair reversed
\* the top edge and a side edge of the face
SweptFaceEdgesWitness ==
    /\ result.op = "sweep_half_edge"
    /\ ValidatesOk(result.edge, ValidationConfig_default)
    /\ SweptCycleEdges[3] # result.swept.top_edge
    /\ SweptCycleEdges[4] # result.swept.side_edges[1]
    /\ SweptCycleEdges[1] = result.swept.bottom_edge
    /\ SweptCycleEdges[2] = result.swept.side_edges[2]

(***************************************************************************)
(* C22: right after Objects::new(), xy_plane(), xz_plane() and yz_plane()  *)
(* return three handles, no two of them the same, to filled Surfaces whose *)
(* geometries are (x-axis, unit y), (x-axis, unit z) and (y-axis, unit z); *)
(* whatever is reserved and inserted afterwards, the three handles still   *)
(* identify three different filled slots of the store of surfaces, and no  *)
(* reserve hands out one of them.                                          *)
(***************************************************************************)
DefaultPlanes == <<xy_plane, xz_plane, yz_plane>>

DefaultPlanesAreStable ==
    /\ \A i, j \in 1..3 :
           i # j => Handle_id(DefaultPlanes[i]) # Handle_id(DefaultPlanes[j])
    /\ \A i \in 1..3 : DefaultPlanes[i] \in FullOf(objects, "Surface")
    /\ result = NoResult =>
           /\ Deref(objects, xy_plane).geometry
                  = SurfaceGeometry(GlobalPath_x_axis, Vector_unit_y)
           /\ Deref(objects, xz_plane).geometry
                  = SurfaceGeometry(GlobalPath_x_axis, Vector_unit_z)
           /\ Deref(objects, yz_plane).geometry
                  = SurfaceGeometry(GlobalPath_y_axis, Vector_unit_z)
    /\ result.op \in {"reserve", "insert"} =>
           \A i \in 1..3 : Handle_id(result.handle) # Handle_id(DefaultPlanes[i])

\* a fourth surface was reserved and, after another slot was reserved,
\* filled
DefaultPlanesWitness ==
    /\ result.op = "insert"
    /\ result.handle \in FullOf(objects, "Surface")
    /\ result.handle > yz_plane
    /\ Len(objects) > result.handle

(***************************************************************************)
(* C23: Circle::number_of_vertices needs a tolerance above zero.  It       *)
(* returns 3 if the tolerance is more than half the radius, and otherwise  *)
(* ceil(PI / acos(1 - tolerance / radius)), which is 3 or more; it returns *)
(* 3, 7 and 23 for (50, 100), (10, 100) and (1, 100).  The polygon of the  *)
(* returned n vertices is within the tolerance of the circle,              *)
(* radius - radius * cos(PI / n) <= tolerance, and the one of n - 1        *)
(* vertices is not if n is more than 3.                                    *)
(***************************************************************************)
\* radius - radius * cos(PI / n) <= tolerance
WithinTolerance(radius, n, tolerance) ==
    radius * Scalar_ONE - radius * CosPiOver[n] <= tolerance * Scalar_ONE

NumberOfVerticesIsLeastWithinTolerance ==
    result.op = "number_of_vertices" =>
        LET tolerance == result.tolerance
            radius == result.radius
            value == result.value
        IN  IF tolerance <= 0 THEN value.out = "Panic"
            ELSE /\ value.out = "Ok"
                 /\ value.n >= 3
                 /\ 2 * tolerance > radius => value.n = 3
                 /\ 2 * tolerance <= radius =>
                        value.n = CeilPiOverAcos(radius - tolerance, radius)
                 /\ <<tolerance, radius>> = <<50, 100>> => value.n = 3
                 /\ <<tolerance, radius>> = <<10, 100>> => value.n = 7
                 /\ <<tolerance, radius>> = <<1, 100>> => value.n = 23
                 /\ WithinTolerance(radius, value.n, tolerance)
                 /\ value.n > 3 =>
                        ~WithinTolerance(radius, value.n - 1, tolerance)

\* the circle of radius 100 with tolerance 1 gets 23 vertices
NumberOfVerticesWitness ==
    /\ result.op = "number_of_vertices"
    /\ <<result.tolerance, result.radius>> = <<1, 100>>
    /\ result.value = [out |-> "Ok", n |-> 23]

(***************************************************************************)
(* C25: in every Approximation that for_edge, for_cycle, for_face and      *)
(* approximate_edge, with or without vertices, return, both end points of  *)
(* every segment are among the points.                                     *)
(***************************************************************************)
SegmentsJoinPoints ==
    result.op \in {"approximate_edge", "for_edge", "for_cycle", "for_face"} =>
        \A segment \in result.approximation.segments :
            /\ segment[1] \in result.approximation.points
            /\ segment[2] \in result.approximation.points

\* a face of two cycles was approximated, a cycle of two line segments and
\* a circle, whose last point is joined to its first
SegmentsJoinPointsWitness ==
    /\ result.op = "for_face"
    /\ Len(result.face.cycles) = 2
    /\ Len(result.face.cycles[1].edges) = 2
    /\ result.face.cycles[1].edges[1].vertices.some
    /\ result.face.cycles[2].edges = <<Edge_circle(3)>>
    /\ LET circle == Circle_approx(Edge_circle(3).curve, result.tolerance)
       IN  <<circle[Len(circle)], circle[1]>>
               \in result.approximation.segments
    /\ Cardinality(result.approximation.segments) > 4

(***************************************************************************)
(* C26: after any sequence of calls of Mesh::triangle, the vertices that   *)
(* indices() points at in vertices() are, in the order of the calls, the   *)
(* three vertices of every triangle that was added, each with the normal   *)
(* of its triangle; every vertex of a triangle is stored exactly once,     *)
(* every index is less than the number of vertices, and there are three    *)
(* indices for a triangle.                                                 *)
(***************************************************************************)
\* the vertex of corner j of the triangle that call c added
AddedVertex(c, j) ==
    [position |-> result.calls[c][j],
     normal |-> TriangleNormal(result.calls[c][1], result.calls[c][2],
                               result.calls[c][3])]

MeshIndexesItsTriangles ==
    result.op \in {"new", "triangle"} =>
        LET vertices == Mesh_vertices(mesh)
            indices == Mesh_indices(mesh)
            calls == result.calls
        IN  /\ Len(indices) = 3 * Len(calls)
            /\ \A k \in DOMAIN indices :
                   indices[k] >= 0 /\ indices[k] < Len(vertices)
            /\ \A c \in DOMAIN calls : \A j \in 1..3 :
                   vertices[indices[3 * (c - 1) + j] + 1] = AddedVertex(c, j)
            /\ \A i, k \in DOMAIN vertices :
                   i # k => vertices[i] # vertices[k]
            /\ {vertices[i] : i \in DOMAIN vertices}
                   = {AddedVertex(c, j) : c \in DOMAIN calls, j \in 1..3}

\* the same triangle was added twice, the second time from its second
\* corner: the mesh has three vertices and the indices 0, 1, 2, 1, 2, 0
MeshSharedWitness ==
    /\ result.op = "triangle"
    /\ Len(Mesh_vertices(mesh)) = 3
    /\ Mesh_indices(mesh) = <<0, 1, 2, 1, 2, 0>>

(***************************************************************************)
(* C21: the sweep of a sketch sweeps every face of the sketch exactly      *)
(* once, each with the path of the sketch and with the one cache, which    *)
(* every sweep gets as the sweep before left it, and returns a newly       *)
(* inserted Solid whose shells are the shells that the sweeps returned,    *)
(* one new Shell for each face of the sketch.                              *)
(***************************************************************************)
SketchSweepsEveryFaceOnce ==
    result.op = "sweep_sketch" =>
        LET faces_ == Deref(objects, result.sketch).faces
            calls == result.calls
            shells == {calls[i].shell : i \in DOMAIN calls}
        IN  /\ Len(calls) = Cardinality(faces_)
            /\ {calls[i].face : i \in DOMAIN calls} = faces_
            /\ \A i \in DOMAIN calls :
                   /\ calls[i].path = result.path
                   /\ calls[i].cache_in = IF i = 1 THEN result.cache_before
                                          ELSE calls[i - 1].cache_out
            /\ cache = IF calls = << >> THEN result.cache_before
                       ELSE calls[Len(calls)].cache_out
            /\ result.solid = Len(objects)
            /\ result.solid > result.stores_before
            /\ result.solid \in FullOf(objects, "Solid")
            /\ Deref(objects, result.solid).shells = shells
            /\ Cardinality(shells) = Cardinality(faces_)
            /\ \A shell \in shells :
                   /\ shell \in FullOf(objects, "Shell")
                   /\ shell > result.stores_before

\* the sketch of two faces was swept with a new cache: the solid has two
\* shells, and the second face was swept with the cache as the first face
\* had filled it
SketchSweepWitness ==
    /\ result.op = "sweep_sketch"
    /\ Len(result.calls) = 2
    /\ result.cache_before = SweepCache_default
    /\ result.calls[1].cache_out # SweepCache_default
    /\ result.calls[2].cache_in = result.calls[1].cache_out
    /\ Cardinality(Deref(objects, result.solid).shells) = 2

====
